---- MODULE Spec2Model ----
(***************************************************************************)
(* A model of the 3MF package core of u1-slicer-bridge: the package        *)
(* rewrites (profile embed, uniform scale, offset-only scale, duplication,*)
(* plate extraction), the plate detector and bounds scanner, the grid      *)
(* layout and the G-code layer extractor.                                  *)
(*                                                                         *)
(* Numbers are integers in micro-units (1 mm = Unit), the resolution of    *)
(* scale_3mf._fmt ("{:.6f}").  A transform is the sequence of its numbers  *)
(* (<<>> when the attribute is absent or empty).  A part's bytes are       *)
(* modelled by its parsed content together with `ser`, the serialisation   *)
(* the bytes are in: "src" for the bytes of the uploaded file, "et" for    *)
(* the output of ElementTree.tostring / json.dumps.  Two parts are         *)
(* byte-identical iff their data records are equal.                        *)
(***************************************************************************)
EXTENDS Integers, Sequences, FiniteSets, TLC

VARIABLES
    dir,      \* the directory: path -> inode number, 0 when the path does not exist
    ino,      \* the files: inode number -> [parts, readable, writers]
    call,     \* the running calls: caller -> its parameters, position and locals
    cache,    \* ProfileEmbedder._cached_profiles / _cached_profiles_dir
    grid,     \* a call of calculate_grid_layout: its arguments and its result
    scan,     \* a package handed to the plate detector and what it returned
    gx,       \* the LayerExtractor object and the lines still to be read
    meta      \* a time text handed to gcode_parser and the seconds it returned

fsvars == <<dir, ino, call, cache>>
vars == <<dir, ino, call, cache, grid, scan, gx, meta>>

-----------------------------------------------------------------------------
(* Strings and paths                                                       *)

Unit == 1000 * 1000

StartsWith(s, p) == Len(s) >= Len(p) /\ SubSeq(s, 1, Len(p)) = p

EndsWith(s, p) == Len(s) >= Len(p) /\ SubSeq(s, Len(s) - Len(p) + 1, Len(s)) = p

RECURSIVE rfind(_, _, _)
rfind(s, ch, i) ==
    IF i = 0 THEN 0
    ELSE IF SubSeq(s, i, i) = ch THEN i ELSE rfind(s, ch, i - 1)

\* pathlib: PurePath.name, .parent, .stem, .with_suffix
PathName(p) == SubSeq(p, rfind(p, "/", Len(p)) + 1, Len(p))

CutName(p, k) == IF k = 0 THEN "." ELSE SubSeq(p, 1, k - 1)
PathParent(p) == CutName(p, rfind(p, "/", Len(p)))

CutSuffix(n, k) == IF k <= 1 \/ k = Len(n) THEN n ELSE SubSeq(n, 1, k - 1)
StemOf(n) == CutSuffix(n, rfind(n, ".", Len(n)))
PathStem(p) == StemOf(PathName(p))

PathJoin(d, n) == d \o "/" \o n

with_suffix(p, suffix) == PathJoin(PathParent(p), PathStem(p) \o suffix)

\* embed_profiles: source_3mf.parent / f"{source_3mf.stem}_clean.3mf"
temp_clean_path(source) == PathJoin(PathParent(source), PathStem(source) \o "_clean.3mf")

-----------------------------------------------------------------------------
(* Package content                                                         *)

MODEL_PATH == "3D/3dmodel.model"
MODEL_SETTINGS_PATH == "Metadata/model_settings.config"
PROJECT_SETTINGS_PATH == "Metadata/project_settings.config"
SLICE_INFO_PATH == "Metadata/slice_info.config"
CUT_INFO_PATH == "Metadata/cut_information.xml"
FILAMENT_SEQUENCE_PATH == "Metadata/filament_sequence.json"
LAYER_GCODE_PATH == "Metadata/custom_gcode_per_layer.xml"

\* A configuration value: a scalar string (l = FALSE, v = <<s>>) or a list.
Scalar(s) == [l |-> FALSE, v |-> <<s>>]
List(q) == [l |-> TRUE, v |-> q]
NoCfg == [k \in {} |-> Scalar("")]

NoModel == [res |-> FALSE, objects |-> <<>>, build |-> FALSE, items |-> <<>>]
NoSettings == [objs |-> <<>>, plates |-> <<>>, hasAsm |-> FALSE, asm |-> <<>>]

\* An opaque part: bytes number `id`; it is no XML and no JSON.
Blob(id) ==
    [crc |-> TRUE, wf |-> FALSE, ser |-> "src", raw |-> id,
     model |-> NoModel, ms |-> NoSettings, cfg |-> NoCfg, layers |-> <<>>]

ModelXml(m) == [Blob(0) EXCEPT !.wf = TRUE, !.model = m]
SettingsXml(s) == [Blob(0) EXCEPT !.wf = TRUE, !.ms = s]
ConfigJson(c) == [Blob(0) EXCEPT !.wf = TRUE, !.cfg = c]
LayersXml(q) == [Blob(0) EXCEPT !.wf = TRUE, !.layers = q]
Malformed(d) == [d EXCEPT !.wf = FALSE]
BadCrc(d) == [d EXCEPT !.crc = FALSE]

Part(n, d) == [name |-> n, data |-> d]

Identity12 == <<Unit, 0, 0, 0, Unit, 0, 0, 0, Unit, 0, 0, 0>>
At(x, y, z) == <<Unit, 0, 0, 0, Unit, 0, 0, 0, Unit, x * Unit, y * Unit, z * Unit>>
At16(x, y, z) == At(x, y, z) \o <<0, 0, 0, Unit>>
\* A vendor matrix value: 4x4, row by row, the translation in the last column
Matrix16(x, y, z) ==
    <<Unit, 0, 0, x * Unit, 0, Unit, 0, y * Unit, 0, 0, Unit, z * Unit, 0, 0, 0, Unit>>

Vertex(x, y, z) == <<x * Unit, y * Unit, z * Unit>>

MeshObject(id, name, verts) ==
    [id |-> id, name |-> name, mesh |-> TRUE, verts |-> verts, comps |-> <<>>]
ContainerObject(id, name, comps) ==
    [id |-> id, name |-> name, mesh |-> FALSE, verts |-> <<>>, comps |-> comps]
Component(path, objectid, transform) ==
    [path |-> path, objectid |-> objectid, transform |-> transform]
Item(objectid, transform, printable) ==
    [objectid |-> objectid, transform |-> transform, printable |-> printable]
Model(objects, items) ==
    [res |-> TRUE, objects |-> objects, build |-> TRUE, items |-> items]

names(parts) == [i \in 1..Len(parts) |-> parts[i].name]

HasPart(parts, n) == \E i \in 1..Len(parts) : parts[i].name = n

\* ZipFile.read(name): the entry of that name (the last one, as zipfile keeps it)
ReadPart(parts, n) ==
    parts[CHOOSE i \in 1..Len(parts) :
            /\ parts[i].name = n
            /\ \A j \in (i + 1)..Len(parts) : parts[j].name # n].data

-----------------------------------------------------------------------------
(* copy_duplicator.py: grid layout                                         *)

BED_SIZE_X == 270 * Unit
BED_SIZE_Y == 270 * Unit

\* math.ceil(math.sqrt(n)) and math.ceil(a / b), for n >= 1, a >= 0, b >= 1
CeilSqrt(n) == CHOOSE c \in 1..n : c * c >= n /\ (c - 1) * (c - 1) < n
CeilDiv(a, b) == (a + b - 1) \div b

grid_cols(copies) == CeilSqrt(copies)
grid_rows(copies) == CeilDiv(copies, grid_cols(copies))

\* col = i % cols; row = i // cols
grid_col(i, cols) == i % cols
grid_row_mod(i, cols) == i % cols
grid_row(i, cols) == i \div cols

\* The positions of calculate_grid_layout for copies >= 1 (it raises below 1).
\* The halves are exact when the sizes are even numbers of micro-units.
GridFrom(start_x, start_y, cell_w, cell_h, cols, copies) ==
    [k \in 1..copies |->
       <<start_x + grid_col(k - 1, cols) * cell_w, start_y + grid_row(k - 1, cols) * cell_h>>]

GridOf(obj_width, obj_depth, copies, spacing, cols, rows) ==
    GridFrom((BED_SIZE_X - (cols * (obj_width + spacing) - spacing) + obj_width) \div 2,
             (BED_SIZE_Y - (rows * (obj_depth + spacing) - spacing) + obj_depth) \div 2,
             obj_width + spacing, obj_depth + spacing, cols, copies)

calculate_grid_layout(obj_width, obj_depth, copies, spacing) ==
    IF copies = 1 THEN << <<BED_SIZE_X \div 2, BED_SIZE_Y \div 2>> >>
    ELSE GridOf(obj_width, obj_depth, copies, spacing, grid_cols(copies), grid_rows(copies))

estimate_max_copies(obj_width, obj_depth, spacing) ==
    IF obj_width <= 0 \/ obj_depth <= 0 THEN 1
    ELSE
      LET Max1(a) == IF a < 1 THEN 1 ELSE a
          cols == Max1((BED_SIZE_X + spacing) \div (obj_width + spacing))
          rows == Max1((BED_SIZE_Y + spacing) \div (obj_depth + spacing))
      IN  cols * rows

\* The comparisons are doubled, so that width / 2 and 0.5 stay integers.
grid_fits_bed(obj_width, obj_depth, copies, spacing) ==
    LET positions == calculate_grid_layout(obj_width, obj_depth, copies, spacing)
    IN  \A k \in 1..Len(positions) :
          LET cx == positions[k][1]
              cy == positions[k][2]
          IN  /\ ~(2 * cx - obj_width < -Unit \/ 2 * cx + obj_width > 2 * BED_SIZE_X + Unit)
              /\ ~(2 * cy - obj_depth < -Unit \/ 2 * cy + obj_depth > 2 * BED_SIZE_Y + Unit)

-----------------------------------------------------------------------------
(* multi_plate_parser.py: vertex bounds                                    *)

INF == 2000 * Unit
NoBounds == [ok |-> FALSE, min |-> <<INF, INF, INF>>, max |-> <<-INF, -INF, -INF>>]

RECURSIVE ScanVertices(_, _, _)
ScanVertices(verts, k, acc) ==
    IF k > Len(verts) THEN acc
    ELSE ScanVertices(verts, k + 1,
           [ok |-> TRUE,
            min |-> [a \in 1..3 |-> IF verts[k][a] < acc.min[a] THEN verts[k][a] ELSE acc.min[a]],
            max |-> [a \in 1..3 |-> IF verts[k][a] > acc.max[a] THEN verts[k][a] ELSE acc.max[a]]])

\* None (ok = FALSE) when the mesh has no vertices
scan_vertex_bounds_from_element(obj) == ScanVertices(obj.verts, 1, NoBounds)

\* The translation an item or component transform contributes: values 9..11
\* when it has at least 12 numbers, zero otherwise
TranslationColumn(t) == IF Len(t) >= 12 THEN <<t[4], t[8], t[12]>> ELSE <<0, 0, 0>>
Translation(t) == IF Len(t) >= 12 THEN <<t[10], t[11], t[12]>> ELSE <<0, 0, 0>>

lstrip_slash(path) == IF StartsWith(path, "/") THEN SubSeq(path, 2, Len(path)) ELSE path

\* The first object of this id in a (sub-)model part, as a sequence of 0 or 1
FirstObject(objects, id) ==
    LET hits == {i \in 1..Len(objects) : objects[i].id = id}
    IN  IF hits = {} THEN <<>>
        ELSE <<objects[CHOOSE i \in hits : \A j \in hits : i <= j]>>

\* The mesh a component refers to, as a sequence of 0 or 1 objects.  A
\* component without p:path is looked up through obj_elem.getparent(), which
\* xml.etree elements do not have: parent is None and nothing is found.
MeshOnly(o) == IF o # <<>> /\ o[1].mesh THEN o ELSE <<>>

SubModelMesh(d, objectid) ==
    IF ~d.crc \/ ~d.wf \/ ~d.model.res THEN <<>>
    ELSE MeshOnly(FirstObject(d.model.objects, objectid))

ComponentMesh(parts, comp) ==
    IF comp.path = "" THEN <<>>
    ELSE IF ~HasPart(parts, lstrip_slash(comp.path)) THEN <<>>
    ELSE SubModelMesh(ReadPart(parts, lstrip_slash(comp.path)), comp.objectid)

MeshBounds(m) == IF m = <<>> THEN NoBounds ELSE scan_vertex_bounds_from_element(m[1])

ComponentBounds(parts, comp) ==
    IF comp.objectid = "" THEN NoBounds ELSE MeshBounds(ComponentMesh(parts, comp))

\* The bounds acc widened by the bounds b shifted by t; b may be None
Widen(acc, b, t) ==
    IF ~b.ok THEN acc
    ELSE [ok |-> TRUE,
          min |-> [a \in 1..3 |-> IF b.min[a] + t[a] < acc.min[a]
                                   THEN b.min[a] + t[a] ELSE acc.min[a]],
          max |-> [a \in 1..3 |-> IF b.max[a] + t[a] > acc.max[a]
                                   THEN b.max[a] + t[a] ELSE acc.max[a]]]

RECURSIVE ScanComponents(_, _, _, _)
ScanComponents(parts, comps, k, acc) ==
    IF k > Len(comps) THEN acc
    ELSE ScanComponents(parts, comps, k + 1,
           Widen(acc, ComponentBounds(parts, comps[k]), Translation(comps[k].transform)))

scan_object_bounds(parts, obj) ==
    IF obj.mesh THEN scan_vertex_bounds_from_element(obj)
    ELSE IF obj.comps = <<>> THEN NoBounds
    ELSE ScanComponents(parts, obj.comps, 1, NoBounds)

-----------------------------------------------------------------------------
(* Numbers in text                                                         *)

Digits == <<"0", "1", "2", "3", "4", "5", "6", "7", "8", "9">>
IsDigit(c) == \E d \in 1..10 : Digits[d] = c
DigitVal(c) == (CHOOSE d \in 1..10 : Digits[d] = c) - 1

AllDigits(s) == Len(s) > 0 /\ \A i \in 1..Len(s) : IsDigit(SubSeq(s, i, i))

RECURSIVE NatVal(_)
NatVal(s) ==
    IF Len(s) = 0 THEN 0
    ELSE 10 * NatVal(SubSeq(s, 1, Len(s) - 1)) + DigitVal(SubSeq(s, Len(s), Len(s)))

RECURSIVE strip(_)
strip(s) ==
    IF Len(s) > 0 /\ SubSeq(s, 1, 1) = " " THEN strip(SubSeq(s, 2, Len(s)))
    ELSE IF Len(s) > 0 /\ SubSeq(s, Len(s), Len(s)) = " " THEN strip(SubSeq(s, 1, Len(s) - 1))
    ELSE s

Unsigned(s) ==
    IF Len(s) > 0 /\ (SubSeq(s, 1, 1) = "-" \/ SubSeq(s, 1, 1) = "+")
    THEN SubSeq(s, 2, Len(s)) ELSE s
Sign(s) == IF Len(s) > 0 /\ SubSeq(s, 1, 1) = "-" THEN -1 ELSE 1

\* int(text): [ok, n]; ok = FALSE where Python raises ValueError
SignedInt(sign, u) ==
    IF AllDigits(u) THEN [ok |-> TRUE, n |-> sign * NatVal(u)] ELSE [ok |-> FALSE, n |-> 0]
StrippedInt(t) == SignedInt(Sign(t), Unsigned(t))
ParseInt(text) == StrippedInt(strip(text))

\* str.isdigit()
isdigit(s) == AllDigits(s)

\* float(text) for plain decimals, in thousandths: [ok, m].  Digits beyond
\* the third decimal are dropped; exponents, inf and nan are not modelled.
Decimal(sign, ip, fp) ==
    IF /\ Len(ip) + Len(fp) > 0
       /\ (Len(ip) = 0 \/ AllDigits(ip))
       /\ (Len(fp) = 0 \/ AllDigits(fp))
    THEN [ok |-> TRUE, m |-> sign * (1000 * NatVal(ip) + NatVal(SubSeq(fp \o "000", 1, 3)))]
    ELSE [ok |-> FALSE, m |-> 0]
SplitDecimal(sign, u, k) ==
    IF k = 0 THEN Decimal(sign, u, "")
    ELSE Decimal(sign, SubSeq(u, 1, k - 1), SubSeq(u, k + 1, Len(u)))
SignedDecimal(sign, u) == SplitDecimal(sign, u, rfind(u, ".", Len(u)))
StrippedFloat(t) == SignedDecimal(Sign(t), Unsigned(t))
ParseFloat(text) == StrippedFloat(strip(text))

\* int(x) of a float: truncation towards zero, here of thousandths
TruncMilli(m) == IF m >= 0 THEN m \div 1000 ELSE -((-m) \div 1000)

Pad3(n) == IF n < 10 THEN "00" \o ToString(n)
           ELSE IF n < 100 THEN "0" \o ToString(n) ELSE ToString(n)

\* f"{x:.3f}" of thousandths
Fmt3(m) ==
    IF m >= 0 THEN ToString(m \div 1000) \o "." \o Pad3(m % 1000)
    ELSE "-" \o ToString((-m) \div 1000) \o "." \o Pad3((-m) % 1000)

\* str(x) of a float given in thousandths: the shortest repr, at least one decimal
StrFloat(m) ==
    LET a == IF m >= 0 THEN m ELSE -m
        f == a % 1000
        ft == IF f % 100 = 0 THEN ToString(f \div 100)
              ELSE IF f % 10 = 0 THEN SubSeq(Pad3(f), 1, 2) ELSE Pad3(f)
    IN  (IF m < 0 THEN "-" ELSE "") \o ToString(a \div 1000) \o "." \o ft

\* round half away from zero to a multiple of q (q > 0)
RoundTo(v, q) ==
    IF v >= 0 THEN ((v + q \div 2) \div q) * q
    ELSE -((((-v) + q \div 2) \div q) * q)

\* f"{x:.4f}" of micro-units: four decimals are 100 micro-units
Fmt4(v) == RoundTo(v, Unit \div 10000)

-----------------------------------------------------------------------------
(* scale_3mf.py                                                            *)

\* values[idx] *= scale_factor, then _fmt: the product rounded to six
\* decimals.  scale_percent is a whole number of percent here.
MulFmt(v, pct) ==
    LET a == IF v >= 0 THEN v ELSE -v
        q == (a \div 100) * pct + (((a % 100) * pct + 50) \div 100)
    IN  IF v >= 0 THEN q ELSE -q

scale_transform(transform, pct, scale_translation) ==
    IF Len(transform) # 12 THEN transform
    ELSE [i \in 1..12 |->
            IF i <= 9 \/ scale_translation THEN MulFmt(transform[i], pct)
            ELSE transform[i]]

scale_component_translation_only(transform, pct) ==
    IF Len(transform) # 12 THEN transform
    ELSE [i \in 1..12 |-> IF i >= 10 THEN MulFmt(transform[i], pct) ELSE transform[i]]

scale_matrix_last_row(text, pct) ==
    IF Len(text) # 16 THEN text
    ELSE [i \in 1..16 |-> IF i \in {13, 14, 15} THEN MulFmt(text[i], pct) ELSE text[i]]

scale_matrix_translation_only(text, pct) ==
    IF Len(text) # 16 THEN text
    ELSE [i \in 1..16 |-> IF i \in {4, 8, 12} THEN MulFmt(text[i], pct) ELSE text[i]]

ScaleComponents(objects, pct) ==
    [o \in 1..Len(objects) |->
       [objects[o] EXCEPT !.comps =
          [c \in 1..Len(objects[o].comps) |->
             [objects[o].comps[c] EXCEPT !.transform =
                IF @ # <<>> THEN scale_component_translation_only(@, pct) ELSE @]]]]

\* _scale_model_xml on a part that parsed; the result is ET.tostring's bytes
scale_model_xml(data, pct) ==
    [data EXCEPT
       !.ser = "et",
       !.model.items = [i \in 1..Len(data.model.items) |->
          [data.model.items[i] EXCEPT !.transform =
             IF @ # <<>> THEN scale_transform(@, pct, FALSE)
             ELSE <<MulFmt(Unit, pct), 0, 0, 0, MulFmt(Unit, pct), 0, 0, 0,
                    MulFmt(Unit, pct), 0, 0, 0>>]],
       !.model.objects = ScaleComponents(data.model.objects, pct)]

scale_model_settings_xml(data, pct) == data

scale_component_offsets_model_xml(data, pct) ==
    [data EXCEPT !.ser = "et", !.model.objects = ScaleComponents(data.model.objects, pct)]

scale_component_offsets_model_settings_xml(data, pct) ==
    [data EXCEPT
       !.ser = "et",
       !.ms.objs = [o \in 1..Len(data.ms.objs) |->
          [data.ms.objs[o] EXCEPT !.matrices =
             [m \in 1..Len(data.ms.objs[o].matrices) |->
                IF data.ms.objs[o].matrices[m] # <<>>
                THEN scale_matrix_translation_only(data.ms.objs[o].matrices[m], pct)
                ELSE <<>>]]]]

\* abs(scale_percent - 100.0) < 0.001
IsNoScaleNever(pct) == FALSE
IsNoScale(pct) == pct = 100

\* The loop body of apply_uniform_scale_to_3mf / apply_layout_scale_to_3mf for
\* one entry: [ok, data], ok = FALSE where read or ET.fromstring raises.
UniformScalePart(part, pct) ==
    IF ~part.data.crc THEN [ok |-> FALSE, data |-> part.data]
    ELSE IF EndsWith(part.name, ".model")
    THEN IF part.data.wf THEN [ok |-> TRUE, data |-> scale_model_xml(part.data, pct)]
         ELSE [ok |-> FALSE, data |-> part.data]
    ELSE IF part.name = MODEL_SETTINGS_PATH
    THEN [ok |-> TRUE, data |-> scale_model_settings_xml(part.data, pct)]
    ELSE [ok |-> TRUE, data |-> part.data]

LayoutScalePart(part, pct) ==
    IF ~part.data.crc THEN [ok |-> FALSE, data |-> part.data]
    ELSE IF EndsWith(part.name, ".model")
    THEN IF part.data.wf
         THEN [ok |-> TRUE, data |-> scale_component_offsets_model_xml(part.data, pct)]
         ELSE [ok |-> FALSE, data |-> part.data]
    ELSE IF part.name = MODEL_SETTINGS_PATH
    THEN IF part.data.wf
         THEN [ok |-> TRUE, data |-> scale_component_offsets_model_settings_xml(part.data, pct)]
         ELSE [ok |-> FALSE, data |-> part.data]
    ELSE [ok |-> TRUE, data |-> part.data]

-----------------------------------------------------------------------------
(* multi_plate_parser.py: plate detection                                  *)

Identity16 == <<Unit, 0, 0, 0, 0, Unit, 0, 0, 0, 0, Unit, 0, 0, 0, 0, Unit>>

NoNames == [k \in {} |-> ""]
Put(m, k, v) == [x \in DOMAIN m \cup {k} |-> IF x = k THEN v ELSE m[x]]
Get(m, k) == IF k \in DOMAIN m THEN m[k] ELSE ""

\* plater_id -> plater_name of the <plate> elements, in document order.  A
\* plate without plater_id metadata (plater_id = "") is skipped; a plater_id
\* that is no integer raises inside the try block, which ends the scan.
RECURSIVE PlateNames(_, _, _)
PlateNames(plates, k, acc) ==
    IF k > Len(plates) THEN [ok |-> TRUE, names |-> acc]
    ELSE IF plates[k].plater_id = "" THEN PlateNames(plates, k + 1, acc)
    ELSE LET pid == ParseInt(plates[k].plater_id)
             pname == strip(plates[k].plater_name)
         IN  IF ~pid.ok THEN [ok |-> FALSE, names |-> acc]
             ELSE PlateNames(plates, k + 1,
                    IF pid.n # 0 /\ pname # "" THEN Put(acc, pid.n, pname) ELSE acc)

RECURSIVE BambuObjectNames(_, _, _)
BambuObjectNames(objs, k, acc) ==
    IF k > Len(objs) THEN acc
    ELSE BambuObjectNames(objs, k + 1,
           IF objs[k].id # "" /\ strip(objs[k].name) # ""
           THEN Put(acc, objs[k].id, strip(objs[k].name)) ELSE acc)

\* The name of the first named object of a referenced sub-model ("" if none)
RECURSIVE FirstRefName(_, _)
FirstRefName(objects, k) ==
    IF k > Len(objects) THEN ""
    ELSE IF strip(objects[k].name) # "" THEN strip(objects[k].name)
    ELSE FirstRefName(objects, k + 1)

\* What a nameless container takes from its first component with a p:path:
\* the sub-model's first object name and the path's stem
RefName(d) ==
    IF d.crc /\ d.wf /\ d.model.res THEN FirstRefName(d.model.objects, 1) ELSE ""

PathComponent(parts, comp) ==
    [has |-> TRUE,
     ref |-> IF HasPart(parts, lstrip_slash(comp.path))
             THEN RefName(ReadPart(parts, lstrip_slash(comp.path))) ELSE "",
     stem |-> PathStem(comp.path)]

FirstOf(comps, withPath) ==
    IF withPath = {} THEN [path |-> ""]
    ELSE comps[CHOOSE c \in withPath : \A e \in withPath : c <= e]

FirstPathComponent(parts, comp) ==
    IF comp.path = "" THEN [has |-> FALSE, ref |-> "", stem |-> ""]
    ELSE PathComponent(parts, comp)

ComponentName(parts, comps) ==
    FirstPathComponent(parts, FirstOf(comps, {c \in 1..Len(comps) : comps[c].path # ""}))

NamedAs(acc, id, own, c) ==
    IF id = "" THEN acc
    ELSE IF own # "" THEN Put(acc, id, own)
    ELSE IF ~c.has THEN acc
    ELSE IF c.ref # "" THEN Put(acc, id, c.ref)
    ELSE IF id \notin DOMAIN acc /\ c.stem # "" THEN Put(acc, id, c.stem)
    ELSE acc

RECURSIVE ObjectNames(_, _, _, _)
ObjectNames(parts, objects, k, acc) ==
    IF k > Len(objects) THEN acc
    ELSE ObjectNames(parts, objects, k + 1,
           NamedAs(acc, objects[k].id, strip(objects[k].name),
                   ComponentName(parts, objects[k].comps)))

PlateTransform(transform) ==
    IF Len(transform) = 12 THEN transform \o <<0, 0, 0, Unit>>
    ELSE IF Len(transform) # 16 THEN Identity16
    ELSE transform

\* PlateInfo.get_translation
get_translation(plate) == <<plate.transform[10], plate.transform[11], plate.transform[12]>>

\* The name of plate i: the Bambu plate name, else the Bambu object name,
\* else the object's own name, else "Plate i"
PlateName(i, object_id, bambu_plate_names, bambu_object_names, object_names) ==
    IF i \in DOMAIN bambu_plate_names /\ bambu_plate_names[i] # ""
    THEN bambu_plate_names[i]
    ELSE IF Get(bambu_object_names, object_id) # "" THEN Get(bambu_object_names, object_id)
    ELSE IF Get(object_names, object_id) # "" THEN Get(object_names, object_id)
    ELSE "Plate " \o ToString(i)

PlateOf(i, item, object_id, bambu_plate_names, bambu_object_names, object_names) ==
    [plate_id |-> i,
     object_id |-> object_id,
     transform |-> PlateTransform(item.transform),
     printable |-> item.printable # "0",
     plate_name |-> PlateName(i, object_id, bambu_plate_names, bambu_object_names,
                              object_names)]

\* One plate per object id: the items that repeat an earlier id are left out
PlatesOfObjects(items, bambu_plate_names, bambu_object_names, object_names) ==
    LET keep == {i \in 1..Len(items) :
                   \A j \in 1..(i - 1) : items[j].objectid # items[i].objectid}
        nth(k) == CHOOSE i \in keep : Cardinality({j \in keep : j <= i}) = k
    IN  [ok |-> TRUE,
         plates |-> [k \in 1..Cardinality(keep) |->
                       PlateOf(k, items[nth(k)], items[nth(k)].objectid,
                               bambu_plate_names, bambu_object_names, object_names)],
         multi |-> Cardinality(keep) > 1]
PlatesOf(items, bambu_plate_names, bambu_object_names, object_names) ==
    [ok |-> TRUE,
     plates |-> [i \in 1..Len(items) |->
                   PlateOf(i, items[i],
                           IF items[i].objectid # "" THEN items[i].objectid ELSE ToString(i),
                           bambu_plate_names, bambu_object_names, object_names)],
     multi |-> Len(items) > 1]

\* The names model_settings.config gives: [ok, names] of the plates, then
\* the object names, which are read only if the plates were read through
BambuPlateNames(msd) ==
    IF msd.crc /\ msd.wf THEN PlateNames(msd.ms.plates, 1, [k \in {} |-> ""])
    ELSE [ok |-> FALSE, names |-> [k \in {} |-> ""]]

BambuNames(msd, pn) ==
    IF msd.crc /\ msd.wf /\ pn.ok THEN BambuObjectNames(msd.ms.objs, 1, NoNames)
    ELSE NoNames

ParsedModel(parts, d, msd, pn) ==
    IF ~d.crc \/ ~d.wf THEN [ok |-> FALSE, plates |-> <<>>, multi |-> FALSE]
    ELSE IF ~d.model.build \/ Len(d.model.items) <= 1
    THEN [ok |-> TRUE, plates |-> <<>>, multi |-> FALSE]
    ELSE PlatesOf(d.model.items, pn.names, BambuNames(msd, pn),
                  IF d.model.res THEN ObjectNames(parts, d.model.objects, 1, NoNames)
                  ELSE NoNames)

ParsedWith(parts, d, msd) == ParsedModel(parts, d, msd, BambuPlateNames(msd))

\* The settings part as read, or a part that does not parse when there is none
SettingsData(parts) ==
    IF HasPart(parts, MODEL_SETTINGS_PATH) THEN ReadPart(parts, MODEL_SETTINGS_PATH)
    ELSE Blob(0)

\* parse_multi_plate_3mf: [ok, plates, multi]; ok = FALSE where it raises
parse_multi_plate_3mf(file) ==
    IF ~file.readable \/ ~HasPart(file.parts, MODEL_PATH)
    THEN [ok |-> FALSE, plates |-> <<>>, multi |-> FALSE]
    ELSE ParsedWith(file.parts, ReadPart(file.parts, MODEL_PATH), SettingsData(file.parts))

-----------------------------------------------------------------------------
(* multi_plate_parser.py: bounds                                           *)

\* obj_map[oid]: the last object of that id, as a sequence of 0 or 1
LastObject(objects, id) ==
    LET hits == {i \in 1..Len(objects) : objects[i].id = id}
    IN  IF id = "" \/ hits = {} THEN <<>>
        ELSE <<objects[CHOOSE i \in hits : \A j \in hits : i >= j]>>

ObjectBounds(parts, o) == IF o = <<>> THEN NoBounds ELSE scan_object_bounds(parts, o[1])

RECURSIVE UnionItems(_, _, _, _, _)
UnionItems(parts, objects, items, targets, acc) ==
    IF targets = <<>> THEN acc
    ELSE UnionItems(parts, objects, items, Tail(targets),
           Widen(acc,
                 ObjectBounds(parts, LastObject(objects, items[Head(targets)].objectid)),
                 Translation(items[Head(targets)].transform)))

NoXmlBounds ==
    [ok |-> FALSE, found |-> FALSE, min |-> <<0, 0, 0>>, max |-> <<0, 0, 0>>,
     is_multi_plate |-> FALSE]

XmlBounds(g, multi) ==
    [ok |-> TRUE, found |-> g.ok,
     min |-> IF g.ok THEN g.min ELSE <<0, 0, 0>>,
     max |-> IF g.ok THEN g.max ELSE <<0, 0, 0>>,
     is_multi_plate |-> multi]

ItemBounds(parts, objects, items, plate_id, multi) ==
    IF plate_id # 0 /\ (plate_id < 1 \/ plate_id > Len(items)) THEN NoXmlBounds
    ELSE XmlBounds(UnionItems(parts, objects, items,
                              IF plate_id # 0 THEN <<plate_id>>
                              ELSE [i \in 1..Len(items) |-> i],
                              NoBounds),
                   multi)

ModelBounds(parts, model, plate_id, multi) ==
    IF ~model.res THEN NoXmlBounds
    ELSE ItemBounds(parts, model.objects, IF model.build THEN model.items ELSE <<>>,
                    plate_id, multi)

BoundsAfterParse(file, plate_id, parsed) ==
    IF ~parsed.ok THEN NoXmlBounds
    ELSE ModelBounds(file.parts, ReadPart(file.parts, MODEL_PATH).model, plate_id,
                     parsed.multi)

\* _calculate_xml_bounds(file_path, plates = None, plate_id); plate_id = 0
\* stands for None.  [ok, found, min, max, is_multi_plate]; ok = FALSE where
\* it raises.
calculate_xml_bounds(file, plate_id) ==
    BoundsAfterParse(file, plate_id, parse_multi_plate_3mf(file))

-----------------------------------------------------------------------------
(* copy_duplicator.py: duplication                                         *)

NoDims == [ok |-> FALSE, w |-> 0, d |-> 0, h |-> 0]
DimsOf(b) == [ok |-> TRUE, w |-> b.max[1] - b.min[1], d |-> b.max[2] - b.min[2],
              h |-> b.max[3] - b.min[3]]

\* What get_object_dimensions gets from one object of the wanted id
BoundsDims(b) == IF b.ok THEN DimsOf(b) ELSE NoDims

ObjectDims(parts, obj) ==
    IF ~obj.mesh
    THEN IF obj.comps = <<>> THEN NoDims ELSE BoundsDims(scan_object_bounds(parts, obj))
    ELSE IF obj.verts = <<>> THEN NoDims
    ELSE DimsOf(ScanVertices(obj.verts, 1, NoBounds))

\* The (item, object) pairs that yield dimensions, and the first of them:
\* the first printable item, in build order, and the first object of its
\* id, in resource order
DimsHits(parts, items, objs) ==
    {ij \in (1..Len(items)) \X (1..Len(objs)) :
       /\ items[ij[1]].printable # "0"
       /\ items[ij[1]].objectid # ""
       /\ objs[ij[2]].id = items[ij[1]].objectid
       /\ ObjectDims(parts, objs[ij[2]]).ok}

FirstHit(hits) ==
    CHOOSE ij \in hits : \A o \in hits : ij[1] < o[1] \/ (ij[1] = o[1] /\ ij[2] <= o[2])

FirstDims(parts, objs, hits) ==
    IF hits = {} THEN NoDims ELSE ObjectDims(parts, objs[FirstHit(hits)[2]])

ModelDims(parts, d) ==
    IF ~d.crc \/ ~d.wf \/ ~d.model.res THEN NoDims
    ELSE FirstDims(parts, d.model.objects,
                   DimsHits(parts, IF d.model.build THEN d.model.items ELSE <<>>,
                            d.model.objects))

get_object_dimensions(file) ==
    IF ~file.readable \/ ~HasPart(file.parts, MODEL_PATH) THEN NoDims
    ELSE ModelDims(file.parts, ReadPart(file.parts, MODEL_PATH))

CopyTransform(cx, cy, tz) ==
    <<Unit, 0, 0, 0, Unit, 0, 0, 0, Unit, Fmt4(cx), Fmt4(cy), Fmt4(tz)>>

\* _patch_model_settings on the decoded part
FirstPlates(plates) ==
    IF plates = <<>> THEN <<[plater_id |-> "1", plater_name |-> "", instances |-> <<>>]>>
    ELSE plates

patch_model_settings(data, object_id, positions, tz) ==
    IF ~data.wf THEN data
    ELSE [data EXCEPT
            !.ser = "et",
            !.ms.plates = [FirstPlates(@) EXCEPT ![1].instances =
               [k \in 1..Len(positions) |->
                  [object_id |-> object_id,
                   instance_id |-> ToString(k - 1),
                   identify_id |-> ToString(231 + k - 1)]]],
            !.ms.hasAsm = TRUE,
            !.ms.asm =
               [k \in 1..Len(positions) |->
                  [object_id |-> object_id,
                   instance_id |-> ToString(k - 1),
                   transform |-> CopyTransform(positions[k][1], positions[k][2], tz),
                   offset |-> "0 0 0"]]]

\* The template item of apply_copies_to_3mf: the first printable one, else the first
FirstPrintable(items, pr) ==
    IF pr = {} THEN items[1] ELSE items[CHOOSE i \in pr : \A j \in pr : i <= j]

FirstItem(items) == items[1]

TemplateItem(items) == FirstPrintable(items, {i \in 1..Len(items) : items[i].printable # "0"})

\* obj * layout_scale_factor, the factor given in percent
Times(v, pct) == (v \div 100) * pct + ((v % 100) * pct) \div 100

\* apply_copies_to_3mf up to the point where the output is opened:
\* status "fail" (it raises), "copy" (shutil.copy2) or "write", with the
\* rewritten model part and the patched settings part.
NoCopies ==
    [status |-> "fail", model |-> Blob(0), patched |-> FALSE, settings |-> Blob(0),
     fits_bed |-> FALSE, max_copies |-> 0]

CopiesWritten(d, msd, hasMs, template, positions, orig_tz, copies, fits, max_copies) ==
    IF template.objectid = "" THEN NoCopies
    ELSE IF hasMs /\ ~msd.crc THEN NoCopies
    ELSE [status |-> "write",
          model |-> [d EXCEPT !.ser = "et",
                       !.model.items = [k \in 1..copies |->
                          Item(template.objectid,
                               CopyTransform(positions[k][1], positions[k][2], orig_tz),
                               "1")]],
          patched |-> hasMs,
          settings |-> patch_model_settings(msd, template.objectid, positions, orig_tz),
          fits_bed |-> fits,
          max_copies |-> max_copies]

CopiesFrom(parts, d, template, w, dp, sp, copies) ==
    CopiesWritten(d, SettingsData(parts), HasPart(parts, MODEL_SETTINGS_PATH), template,
                  calculate_grid_layout(w, dp, copies, sp),
                  IF Len(template.transform) >= 12 THEN template.transform[12] ELSE 0,
                  copies, grid_fits_bed(w, dp, copies, sp), estimate_max_copies(w, dp, sp))

CopiesOf(parts, d, w, dp, sp, copies) ==
    IF copies = 1
    THEN [NoCopies EXCEPT !.status = "copy", !.fits_bed = TRUE,
                          !.max_copies = estimate_max_copies(w, dp, sp)]
    ELSE IF ~d.model.build \/ d.model.items = <<>> THEN NoCopies
    ELSE CopiesFrom(parts, d, TemplateItem(d.model.items), w, dp, sp, copies)

CopiesWith(file, dims, copies, spacing, lsf) ==
    IF ~dims.ok THEN NoCopies
    ELSE CopiesOf(file.parts, ReadPart(file.parts, MODEL_PATH), Times(dims.w, lsf),
                  Times(dims.d, lsf), Times(spacing, lsf), copies)

CopiesPlan(file, copies, spacing, lsf) ==
    IF copies < 1 \/ lsf <= 0 THEN NoCopies
    ELSE CopiesWith(file, get_object_dimensions(file), copies, spacing, lsf)

\* The loop body of apply_copies_to_3mf for one entry: [ok, data]
CopiesPart(part, plan) ==
    IF part.name = MODEL_PATH THEN [ok |-> TRUE, data |-> plan.model]
    ELSE IF part.name = MODEL_SETTINGS_PATH /\ plan.patched
    THEN [ok |-> TRUE, data |-> plan.settings]
    ELSE [ok |-> part.data.crc, data |-> part.data]

-----------------------------------------------------------------------------
(* multi_plate_parser.py: plate extraction                                 *)

NarrowedOnly(d, target_plate_id) ==
    [status |-> "write",
     model |-> [d EXCEPT !.ser = "et",
                  !.model.items = <<[@[target_plate_id] EXCEPT !.printable = "1"]>>]]

\* extract_plate_to_3mf up to the point where the output is opened
NarrowedTo(d, target_plate_id) ==
    [status |-> "write",
     model |-> [d EXCEPT !.ser = "et",
                  !.model.items = [i \in 1..Len(@) |->
                     [@[i] EXCEPT !.printable =
                        IF i = target_plate_id THEN "1" ELSE "0"]]]]

ExtractFrom(file, parsed, target_plate_id) ==
    IF ~parsed.ok THEN [status |-> "fail", model |-> Blob(0)]
    ELSE IF ~parsed.multi THEN [status |-> "copy", model |-> Blob(0)]
    ELSE IF ~\E i \in 1..Len(parsed.plates) : parsed.plates[i].plate_id = target_plate_id
    THEN [status |-> "fail", model |-> Blob(0)]
    ELSE NarrowedTo(ReadPart(file.parts, MODEL_PATH), target_plate_id)

ExtractPlan(file, target_plate_id) ==
    ExtractFrom(file, parse_multi_plate_3mf(file), target_plate_id)

\* The loop body of extract_plate_to_3mf for one entry: [ok, data]
ExtractPart(part, plan) ==
    IF part.name = MODEL_PATH THEN [ok |-> TRUE, data |-> plan.model]
    ELSE [ok |-> part.data.crc, data |-> part.data]

-----------------------------------------------------------------------------
(* profile_embedder.py: the settings part                                  *)

\* dict.update / {**a, **b}: the right operand wins
Update(config, other) == other @@ config

Remove(config, keys) == [k \in DOMAIN config \ keys |-> config[k]]

Set(config, key, val) == (key :> val) @@ config

ensure_list(config, key) == IF key \in DOMAIN config THEN config[key].v ELSE <<>>

\* if not values: values = [default_value]
OrValue(values, default_value) == IF values = <<>> THEN <<default_value>> ELSE values

\* while len(padded) < target_len: padded.append(padded[-1])
Extended(padded, target_len) ==
    [i \in 1..(IF Len(padded) < target_len THEN target_len ELSE Len(padded)) |->
       IF i <= Len(padded) THEN padded[i] ELSE padded[Len(padded)]]

\* The loop of _pad_list appending the fallback instead of the last element
pad_list_default(values, target_len, default_value) ==
    IF target_len <= 0 THEN values
    ELSE [i \in 1..(IF Len(OrValue(values, default_value)) < target_len THEN target_len
                    ELSE Len(OrValue(values, default_value))) |->
            IF i <= Len(OrValue(values, default_value))
            THEN OrValue(values, default_value)[i] ELSE default_value]
pad_list(values, target_len, default_value) ==
    IF target_len <= 0 THEN values ELSE Extended(OrValue(values, default_value), target_len)

\* float(str(raw).strip()) of a configuration value: a list is no number
NumberOf(val) == IF val.l THEN [ok |-> FALSE, m |-> 0] ELSE ParseFloat(val.v[1])

\* raw[0] if isinstance(raw, list) and raw else raw, then float(str(value).strip())
FirstNumberOf(val) ==
    IF val.l /\ val.v = <<>> THEN [ok |-> FALSE, m |-> 0] ELSE ParseFloat(val.v[1])

AtLeast(numeric, minimum) == IF numeric < minimum THEN minimum ELSE numeric
IndexOf(f, minimum) == AtLeast(IF f.ok THEN TruncMilli(f.m) ELSE minimum, minimum)

sanitize_index_field(config, key, minimum) ==
    IF key \notin DOMAIN config THEN config
    ELSE Set(config, key, Scalar(ToString(IndexOf(NumberOf(config[key]), minimum))))

OrElse(f, fallback) == IF f.ok THEN f.m ELSE fallback

get_numeric(config, key, fallback) ==
    IF key \notin DOMAIN config THEN fallback
    ELSE OrElse(FirstNumberOf(config[key]), fallback)

MaxOf(a, b) == IF a >= b THEN a ELSE b
MinOf(a, b) == IF a <= b THEN a ELSE b

\* _sanitize_wipe_tower_position, in thousandths of a millimetre
Clamped(raw, f, min_pos, max_pos) ==
    IF ~f.ok THEN raw
    ELSE IF raw.l THEN List(<<Fmt3(MinOf(MaxOf(f.m, min_pos), max_pos))>>)
    ELSE Scalar(Fmt3(MinOf(MaxOf(f.m, min_pos), max_pos)))

ClampAxes(config, min_pos, max_pos) ==
    [key \in DOMAIN config |->
       IF key \in {"wipe_tower_x", "wipe_tower_y"}
       THEN Clamped(config[key], FirstNumberOf(config[key]), min_pos, max_pos)
       ELSE config[key]]

HalfSpan(tower_width, tower_brim) == MaxOf(12000, tower_width \div 2 + tower_brim + 6000)

ClampWithin(config, half_span) ==
    ClampAxes(config, half_span, MaxOf(half_span, 270000 - half_span))

sanitize_wipe_tower_position(config) ==
    ClampWithin(config,
                HalfSpan(get_numeric(config, "prime_tower_width", 35000),
                         MaxOf(0, get_numeric(config, "prime_tower_brim_width", 3000))))

PrinterGcodeKeys ==
    {"before_layer_change_gcode", "layer_change_gcode", "change_filament_gcode",
     "machine_start_gcode", "machine_end_gcode", "gcode_flavor"}

list_defaults ==
    [filament_type |-> "PLA",
     filament_colour |-> "#FFFFFF",
     extruder_colour |-> "#FFFFFF",
     default_filament_profile |-> "Snapmaker PLA",
     filament_settings_id |-> "Snapmaker PLA",
     nozzle_temperature |-> "210",
     nozzle_temperature_initial_layer |-> "210",
     bed_temperature |-> "60",
     bed_temperature_initial_layer |-> "60",
     cool_plate_temp |-> "60",
     cool_plate_temp_initial_layer |-> "60",
     textured_plate_temp |-> "60",
     textured_plate_temp_initial_layer |-> "60"]

\* Every <metadata key="extruder"> value of model_settings.config, in order
RECURSIVE Extruders(_, _)
Extruders(objs, k) ==
    IF k > Len(objs) THEN <<>> ELSE objs[k].extruders \o Extruders(objs, k + 1)

SettingsReadable(file) ==
    /\ file.readable
    /\ HasPart(file.parts, MODEL_SETTINGS_PATH)
    /\ ReadPart(file.parts, MODEL_SETTINGS_PATH).crc
    /\ ReadPart(file.parts, MODEL_SETTINGS_PATH).wf

is_bambu_file(file) ==
    /\ file.readable
    /\ \E n \in {MODEL_SETTINGS_PATH, SLICE_INFO_PATH, FILAMENT_SEQUENCE_PATH} :
         HasPart(file.parts, n)

has_multi_extruder_assignments(file) ==
    /\ SettingsReadable(file)
    /\ LET e == Extruders(ReadPart(file.parts, MODEL_SETTINGS_PATH).ms.objs, 1)
       IN  Cardinality({e[i] : i \in 1..Len(e)}) > 1

has_layer_tool_changes(file) ==
    /\ file.readable
    /\ HasPart(file.parts, LAYER_GCODE_PATH)
    /\ LET d == ReadPart(file.parts, LAYER_GCODE_PATH)
       IN  d.crc /\ d.wf /\ \E i \in 1..Len(d.layers) : d.layers[i] = "2"

RECURSIVE MaxIndex(_, _, _)
MaxIndex(e, k, max_idx) ==
    IF k > Len(e) THEN max_idx
    ELSE LET idx == ParseInt(e[k])
         IN  MaxIndex(e, k + 1, IF idx.ok /\ idx.n > max_idx THEN idx.n ELSE max_idx)

get_assigned_extruder_count(file) ==
    IF ~SettingsReadable(file) THEN 1
    ELSE MaxIndex(Extruders(ReadPart(file.parts, MODEL_SETTINGS_PATH).ms.objs, 1), 1, 1)

\* for key, fallback in list_defaults.items(): ... config[key] = self._pad_list(...)
OrDefault(found, key) == IF found = <<>> THEN <<list_defaults[key]>> ELSE found

PadDefaults(config, target_slots) ==
    [key \in DOMAIN config \cup DOMAIN list_defaults |->
       IF key \in DOMAIN list_defaults
       THEN List(pad_list(OrDefault(ensure_list(config, key), key), target_slots,
                          list_defaults[key]))
       ELSE config[key]]

\* The calls of _sanitize_index_field for several keys with one minimum
SanitizeIndexFields(config, keys, minimum) ==
    [key \in DOMAIN config |->
       IF key \in keys THEN Scalar(ToString(IndexOf(NumberOf(config[key]), minimum)))
       ELSE config[key]]

\* _build_assignment_preserving_config, statement by statement.  The
\* settings of the source are the starting point; base_config is the empty
\* mapping when the source has none.
WithWholePrinter(config, printer) ==
    Remove(Update(config, printer), {"time_lapse_gcode", "machine_pause_gcode"})

WithPrinterGcode(config, printer) ==
    Remove(Update(config, [k \in PrinterGcodeKeys \cap DOMAIN printer |-> printer[k]]),
           {"time_lapse_gcode", "machine_pause_gcode"})

WithOverridesFirst(config, profiles, filament_settings, overrides) ==
    Update(Update(Update(Update(config, overrides), profiles.process), profiles.filament),
           filament_settings)

WithProfiles(config, profiles, filament_settings, overrides) ==
    Update(Update(Update(Update(config, profiles.process), profiles.filament),
                  filament_settings), overrides)

WithLayerGcode(config) ==
    [key \in DOMAIN config \cup {"layer_gcode", "enable_arc_fitting"} |->
       IF key = "layer_gcode" THEN Scalar("G92 E0")
       ELSE IF key \in DOMAIN config THEN config[key]
       ELSE Scalar("1")]

WithIndexFields(config) ==
    SanitizeIndexFields(config,
        {"raft_first_layer_expansion", "tree_support_wall_count", "prime_volume",
         "prime_tower_brim_width", "prime_tower_brim_chamfer",
         "prime_tower_brim_chamfer_max_width"}, 0)

WithFilamentFields(config) ==
    SanitizeIndexFields(config,
        {"solid_infill_filament", "sparse_infill_filament", "wall_filament"}, 1)

WithBedSingle(config) ==
    [key \in DOMAIN config \cup {"bed_temperature_initial_layer_single",
                                 "single_extruder_multi_material"} |->
       IF key = "single_extruder_multi_material" THEN Scalar("0")
       ELSE IF key = "bed_temperature_initial_layer_single"
       THEN IF ensure_list(config, key) = <<>>
            THEN List(<<config["bed_temperature_initial_layer"].v[1]>>)
            ELSE List(ensure_list(config, key))
       ELSE config[key]]

build_assignment_preserving_config(file, base_config, profiles, filament_settings, overrides, requested_filament_count) ==
    WithBedSingle(
      PadDefaults(
        WithFilamentFields(
          sanitize_wipe_tower_position(
            WithIndexFields(
              WithLayerGcode(
                WithProfiles(WithPrinterGcode(base_config, profiles.printer),
                             profiles, filament_settings, overrides))))),
        MaxOf(MaxOf(get_assigned_extruder_count(file), requested_filament_count), 1)))

\* The merge of the rebuild path of embed_profiles
SetDefault(config, key, value) ==
    IF key \in DOMAIN config THEN config ELSE Set(config, key, value)

merged_config(profiles, filament_settings, overrides) ==
    SetDefault(
      SetDefault(
        Update(Update(Update(Update(profiles.printer, profiles.process),
                             profiles.filament), filament_settings), overrides),
        "layer_gcode", Scalar("G92 E0")),
      "enable_arc_fitting", Scalar("1"))

\* json.dumps(config, indent=2) as the bytes of the settings part
SettingsJson(config) == [ConfigJson(config) EXCEPT !.ser = "et"]

\* embed_profiles up to _copy_and_inject_settings: [status, preserve,
\* rebuild, config]; status "fail" where it raises.
PreservePlan(file, psd, profiles, filament_settings, overrides, requested_filament_count) ==
    IF ~psd.crc \/ ~psd.wf
    THEN [status |-> "fail", preserve |-> TRUE, rebuild |-> FALSE, config |-> NoCfg]
    ELSE [status |-> "ok", preserve |-> TRUE, rebuild |-> FALSE,
          config |-> build_assignment_preserving_config(file, psd.cfg, profiles,
                       filament_settings, overrides, requested_filament_count)]

PlanFor(file, is_bambu, profiles, filament_settings, overrides, requested_filament_count, preserve_geometry) ==
    IF /\ is_bambu
       /\ requested_filament_count > 1
       /\ (has_multi_extruder_assignments(file) \/ has_layer_tool_changes(file))
    THEN PreservePlan(file,
                      IF HasPart(file.parts, PROJECT_SETTINGS_PATH)
                      THEN ReadPart(file.parts, PROJECT_SETTINGS_PATH)
                      ELSE ConfigJson(NoCfg),
                      profiles, filament_settings, overrides, requested_filament_count)
    ELSE [status |-> "ok", preserve |-> FALSE,
          rebuild |-> is_bambu /\ ~preserve_geometry,
          config |-> merged_config(profiles, filament_settings, overrides)]

EmbedPlan(file, profiles, filament_settings, overrides, requested_filament_count, preserve_geometry) ==
    PlanFor(file, is_bambu_file(file), profiles, filament_settings, overrides,
            requested_filament_count, preserve_geometry)

\* _sanitize_model_settings: the bytes are kept unless something changed
Remapped(value, extruder_remap) ==
    LET raw == strip(value)
    IN  IF DOMAIN extruder_remap # {} /\ isdigit(raw) /\ NatVal(raw) \in DOMAIN extruder_remap
           /\ extruder_remap[NatVal(raw)] \in 1..4
           /\ extruder_remap[NatVal(raw)] # NatVal(raw)
        THEN ToString(extruder_remap[NatVal(raw)])
        ELSE value

sanitize_model_settings(data, extruder_remap) ==
    IF ~data.wf THEN data
    ELSE
      LET new == [data EXCEPT
             !.ms.plates = [p \in 1..Len(data.ms.plates) |->
                              [data.ms.plates[p] EXCEPT !.plater_name = ""]],
             !.ms.objs = [o \in 1..Len(data.ms.objs) |->
                            [data.ms.objs[o] EXCEPT !.extruders =
                               [e \in 1..Len(data.ms.objs[o].extruders) |->
                                  Remapped(data.ms.objs[o].extruders[e], extruder_remap)]]]]
      IN  IF new = data THEN data ELSE [new EXCEPT !.ser = "et"]

bambu_metadata_files ==
    {PROJECT_SETTINGS_PATH, SLICE_INFO_PATH, CUT_INFO_PATH, FILAMENT_SEQUENCE_PATH}

IsPreviewName(name) ==
    \/ StartsWith(name, "Metadata/plate")
    \/ StartsWith(name, "Metadata/top")
    \/ StartsWith(name, "Metadata/pick")

\* The loop body of _copy_and_inject_settings for one entry: [skip, ok, data]
InjectPart(part, extruder_remap) ==
    IF part.name \in bambu_metadata_files \/ IsPreviewName(part.name)
    THEN [skip |-> TRUE, ok |-> TRUE, data |-> part.data]
    ELSE IF ~part.data.crc THEN [skip |-> FALSE, ok |-> FALSE, data |-> part.data]
    ELSE IF part.name = MODEL_SETTINGS_PATH
    THEN [skip |-> FALSE, ok |-> TRUE,
          data |-> sanitize_model_settings(part.data, extruder_remap)]
    ELSE [skip |-> FALSE, ok |-> TRUE, data |-> part.data]

\* _rebuild_with_trimesh: trimesh loads the scene and exports a fresh 3MF,
\* which holds the geometry alone, in trimesh's own bytes.
rebuild_with_trimesh(file) ==
    IF ~file.readable \/ ~HasPart(file.parts, MODEL_PATH)
       \/ ~ReadPart(file.parts, MODEL_PATH).crc \/ ~ReadPart(file.parts, MODEL_PATH).wf
    THEN [ok |-> FALSE, parts |-> <<>>]
    ELSE [ok |-> TRUE,
          parts |-> <<Part("[Content_Types].xml", [Blob(0) EXCEPT !.ser = "trimesh"]),
                      Part("_rels/.rels", [Blob(0) EXCEPT !.ser = "trimesh"]),
                      Part(MODEL_PATH,
                           [ReadPart(file.parts, MODEL_PATH) EXCEPT !.ser = "trimesh"])>>]

-----------------------------------------------------------------------------
(* The file system and the class-level profile cache                       *)

\* A file: the entries of the archive, whether a zip reader accepts it,
\* who has it open for writing, and whether two writers wrote into it.
File(parts) == [parts |-> parts, readable |-> TRUE, writers |-> {}, torn |-> FALSE]
NotAZip == [parts |-> <<>>, readable |-> FALSE, writers |-> {}, torn |-> FALSE]

NoProfiles == [printer |-> NoCfg, process |-> NoCfg, filament |-> NoCfg]
ColdCache == [profiles |-> NoProfiles, loaded |-> FALSE, dir |-> ""]

World(d, i, c) == [dir |-> d, ino |-> i, cache |-> c]

Exists(w, p) == p \in DOMAIN w.dir
Lookup(w, p) == IF Exists(w, p) THEN w.ino[w.dir[p]] ELSE NotAZip

\* What a path holds, for comparison: whether it exists and its content
Held(w, p) ==
    [exists |-> Exists(w, p), parts |-> Lookup(w, p).parts,
     readable |-> Lookup(w, p).readable, torn |-> Lookup(w, p).torn]

FreshInode(w) ==
    CHOOSE i \in 1..(Cardinality(DOMAIN w.ino) + 1) :
        i \notin DOMAIN w.ino /\ \A j \in 1..(i - 1) : j \in DOMAIN w.ino

\* An inode lives while a path names it or a writer holds it open
Collect(w) ==
    LET live == {i \in DOMAIN w.ino :
                   w.ino[i].writers # {} \/ \E p \in DOMAIN w.dir : w.dir[p] = i}
    IN  [w EXCEPT !.ino = [i \in live |-> w.ino[i]]]

\* open(path, "wb") / ZipFile(path, "w"): creates the file or truncates it
OpenWrite(w, p, c) ==
    IF Exists(w, p)
    THEN [w EXCEPT !.ino[w.dir[p]] =
            [parts |-> <<>>, readable |-> FALSE, writers |-> @.writers \cup {c},
             torn |-> @.writers \ {c} # {}]]
    ELSE LET i == FreshInode(w)
         IN  [w EXCEPT !.dir = (p :> i) @@ @,
                       !.ino = (i :> [NotAZip EXCEPT !.writers = {c}]) @@ @]

\* ZipFile.writestr on the open file i.  Two writers on one file write
\* over each other, each at its own offset: the file is torn, and which
\* entries it holds is not defined (parts is then left empty).
Torn(w, i, c) == w.ino[i].torn \/ w.ino[i].writers \ {c} # {}

WriteEntry(w, i, c, part) ==
    [w EXCEPT !.ino[i] = [@ EXCEPT !.parts = IF Torn(w, i, c) THEN <<>> ELSE Append(@, part),
                                   !.torn = Torn(w, i, c)]]

\* ZipFile.close: the central directory is written.  A file two writers
\* wrote into holds a mix of both; whether a reader accepts it is open.
CloseWrite(w, i, c, luck) ==
    Collect([w EXCEPT !.ino[i] = [@ EXCEPT !.writers = @ \ {c},
                                           !.parts = IF Torn(w, i, c) THEN <<>> ELSE @,
                                           !.torn = Torn(w, i, c),
                                           !.readable = IF Torn(w, i, c) THEN luck ELSE TRUE]])

\* Path.replace
Rename(w, a, b) ==
    Collect([w EXCEPT !.dir = [p \in (DOMAIN w.dir \ {a}) \cup {b} |->
                                 IF p = b THEN w.dir[a] ELSE w.dir[p]]])

\* Path.unlink
Unlink(w, p) == Collect([w EXCEPT !.dir = [q \in DOMAIN w.dir \ {p} |-> w.dir[q]]])

\* A whole file written in one go (shutil.copy2, trimesh's export, and the
\* archive a with-block leaves when it runs uninterrupted)
Filled(o, i, c, file) ==
    Collect([o EXCEPT !.ino[i] = [@ EXCEPT !.parts = file.parts,
                                           !.readable = file.readable /\ ~o.ino[i].torn,
                                           !.writers = @ \ {c}]])

Opened1(o, p, c, file) == Filled(o, o.dir[p], c, file)

PutFile(w, p, c, file) == Opened1(OpenWrite(w, p, c), p, c, file)

\* The archive a copy loop leaves: the entries up to the first failing one
FirstBad(parts, bad) ==
    IF bad = {} THEN Len(parts) + 1 ELSE CHOOSE i \in bad : \A j \in bad : i <= j

UpTo(parts, res, bad, stop) ==
    [ok |-> bad = {}, parts |-> [i \in 1..(stop - 1) |-> Part(parts[i].name, res[i].data)]]

RewrittenUpTo(parts, res, bad) == UpTo(parts, res, bad, FirstBad(parts, bad))

Rewritten(parts, res) == RewrittenUpTo(parts, res, {i \in 1..Len(parts) : ~res[i].ok})

-----------------------------------------------------------------------------
(* Calls                                                                   *)

NoRemap == [k \in {} |-> 0]

\* The parameters of a call; an operation reads those it has
NoArgs ==
    [pct |-> 100, copies |-> 1, spacing |-> 0, lsf |-> 100, plate |-> 0,
     pdir |-> "", F |-> NoCfg, O |-> NoCfg, n |-> 1, remap |-> NoRemap, pg |-> FALSE]

NoFiles == [p \in {} |-> 0]
Nothing == Held(World(NoFiles, NoFiles, ColdCache), "")

NoPlan == [status |-> "fail", preserve |-> FALSE, rebuild |-> FALSE, config |-> NoCfg]

\* A caller's record: the operation, where it stands (pc), its result (ok),
\* what the source and the destination held when it started, and the
\* locals of embed_profiles / _copy_and_inject_settings.
Idle ==
    [op |-> "none", pc |-> "idle", ok |-> FALSE, round |-> 0,
     source |-> "", dest |-> "", args |-> NoArgs,
     src0 |-> Nothing,
     before |-> Nothing,
     prev |-> Nothing,
     profiles |-> NoProfiles, loaded |-> NoProfiles, plan |-> NoPlan,
     working |-> "", list |-> <<>>, k |-> 0, tmp |-> 0,
     alone |-> [ok |-> FALSE, held |-> Nothing]]

Begin(w, op, source, dest, args) ==
    [Idle EXCEPT !.op = op, !.pc = "run", !.round = 1, !.source = source, !.dest = dest,
                 !.args = args, !.src0 = Held(w, source), !.before = Held(w, dest),
                 !.working = source]

Finish(cr, ok) == [cr EXCEPT !.pc = "done", !.ok = ok]

\* shutil.copy2(source, dest)
Copy2(w, c, cr) ==
    IF ~Exists(w, cr.source) THEN [w |-> w, c |-> Finish(cr, FALSE)]
    ELSE [w |-> PutFile(w, cr.dest, c, Lookup(w, cr.source)), c |-> Finish(cr, TRUE)]

\* What the loop body makes of each entry, for the four operations
Entries(op, parts, args, plan) ==
    [i \in 1..Len(parts) |->
       CASE op = "uniform_scale" -> UniformScalePart(parts[i], args.pct)
         [] op = "layout_scale" -> LayoutScalePart(parts[i], args.pct)
         [] op = "copies" -> CopiesPart(parts[i], plan)
         [] op = "extract" -> ExtractPart(parts[i], plan)]

Written(w, c, cr, r) ==
    [w |-> PutFile(w, cr.dest, c, File(r.parts)), c |-> Finish(cr, r.ok)]

Unreadable(w, cr) == [w |-> w, c |-> Finish(cr, FALSE)]

ScaleLoop(w, c, cr, src) ==
    IF ~src.readable THEN Unreadable(w, cr)
    ELSE Written(w, c, cr, Rewritten(src.parts, Entries(cr.op, src.parts, cr.args, NoCopies)))

apply_uniform_scale_to_3mf(w, c, cr) ==
    IF IsNoScale(cr.args.pct) THEN Copy2(w, c, cr) ELSE ScaleLoop(w, c, cr, Lookup(w, cr.source))

apply_layout_scale_to_3mf(w, c, cr) ==
    IF IsNoScale(cr.args.pct) THEN Copy2(w, c, cr) ELSE ScaleLoop(w, c, cr, Lookup(w, cr.source))

PlannedLoop(w, c, cr, src, plan) ==
    IF plan.status = "fail" THEN Unreadable(w, cr)
    ELSE IF plan.status = "copy" THEN Copy2(w, c, cr)
    ELSE Written(w, c, cr, Rewritten(src.parts, Entries(cr.op, src.parts, cr.args, plan)))

CopiesLoop(w, c, cr, src) ==
    PlannedLoop(w, c, cr, src,
                CopiesPlan(src, cr.args.copies, cr.args.spacing, cr.args.lsf))

apply_copies_to_3mf(w, c, cr) == CopiesLoop(w, c, cr, Lookup(w, cr.source))

ExtractLoop(w, c, cr, src) == PlannedLoop(w, c, cr, src, ExtractPlan(src, cr.args.plate))

extract_plate_to_3mf(w, c, cr) == ExtractLoop(w, c, cr, Lookup(w, cr.source))

-----------------------------------------------------------------------------
(* profile_embedder.py: embed_profiles, step by step                       *)
(* Each operator takes the world and the caller's record and returns both  *)
(* after the step: [w, c].                                                 *)

To(cr, pc) == [cr EXCEPT !.pc = pc]

temp_zip_path(cr) == with_suffix(cr.dest, ".tmp")

\* load_snapmaker_profiles: the test of the class-level cache
LoadCheck(w, c, cr) ==
    [w |-> w,
     c |-> IF w.cache.loaded /\ w.cache.dir = cr.args.pdir THEN To(cr, "load_return")
           ELSE To(cr, "load_read")]

\* ProfileEmbedder._cached_profiles = ProfileSettings(...)
CacheProfiles(w, c, cr) ==
    [w |-> [w EXCEPT !.cache.profiles = cr.loaded, !.cache.loaded = TRUE],
     c |-> To(cr, "cache_dir")]

\* ProfileEmbedder._cached_profiles_dir = self.profile_dir
CacheDir(w, c, cr) ==
    [w |-> [w EXCEPT !.cache.dir = cr.args.pdir], c |-> To(cr, "load_return")]

\* return ProfileEmbedder._cached_profiles
LoadReturn(w, c, cr) ==
    [w |-> w, c |-> [cr EXCEPT !.pc = "detect", !.profiles = w.cache.profiles]]

\* The detection of the source and the choice of the path
Planned(w, cr, plan) ==
    [w |-> w,
     c |-> [cr EXCEPT !.plan = plan,
                      !.pc = IF plan.status = "fail" THEN "fail"
                             ELSE IF plan.rebuild THEN "rebuild" ELSE "open"]]

Detect(w, c, cr) ==
    Planned(w, cr, EmbedPlan(Lookup(w, cr.source), cr.profiles, cr.args.F, cr.args.O,
                             cr.args.n, cr.args.pg))

Rebuilt(w, c, cr, r, temp_clean) ==
    IF ~r.ok THEN [w |-> w, c |-> To(cr, "fail")]
    ELSE [w |-> PutFile(w, temp_clean, c, File(r.parts)),
          c |-> [cr EXCEPT !.working = temp_clean, !.pc = "open"]]

Rebuild(w, c, cr) ==
    Rebuilt(w, c, cr, rebuild_with_trimesh(Lookup(w, cr.source)), temp_clean_path(cr.source))

\* ZipFile(source, "r") and ZipFile(temp_zip, "w")
Opened(w, cr, src, o, temp_zip) ==
    IF ~src.readable THEN [w |-> w, c |-> To(cr, "cleanup")]
    ELSE [w |-> o,
          c |-> [cr EXCEPT !.list = src.parts, !.k = 1, !.tmp = o.dir[temp_zip],
                           !.pc = "copy"]]

OpenedAt(w, c, cr, temp_zip) ==
    Opened(w, cr, Lookup(w, cr.working), OpenWrite(w, temp_zip, c), temp_zip)

OpenBoth(w, c, cr) == OpenedAt(w, c, cr, temp_zip_path(cr))

\* One turn of the copy loop; a failing read leaves both with-blocks
Copied(w, c, cr, luck, r) ==
    IF r.skip THEN [w |-> w, c |-> [cr EXCEPT !.k = @ + 1]]
    ELSE IF ~r.ok
    THEN [w |-> CloseWrite(w, cr.tmp, c, luck), c |-> To(cr, "cleanup")]
    ELSE [w |-> WriteEntry(w, cr.tmp, c, Part(cr.list[cr.k].name, r.data)),
          c |-> [cr EXCEPT !.k = @ + 1]]

CopyEntry(w, c, cr, luck) == Copied(w, c, cr, luck, InjectPart(cr.list[cr.k], cr.args.remap))

\* dest_zf.writestr('Metadata/project_settings.config', settings_json)
Inject(w, c, cr) ==
    [w |-> WriteEntry(w, cr.tmp, c, Part(PROJECT_SETTINGS_PATH, SettingsJson(cr.plan.config))),
     c |-> To(cr, "close")]

CloseBoth(w, c, cr, luck) ==
    [w |-> CloseWrite(w, cr.tmp, c, luck), c |-> To(cr, "replace")]

\* temp_zip.replace(dest); the assignment-preserving path returns here
Replaced(w, cr, temp_zip) ==
    IF ~Exists(w, temp_zip) THEN [w |-> w, c |-> To(cr, "cleanup")]
    ELSE [w |-> Rename(w, temp_zip, cr.dest),
          c |-> IF cr.plan.preserve THEN Finish(cr, TRUE) ELSE To(cr, "post")]

Replace(w, c, cr) == Replaced(w, cr, temp_zip_path(cr))

\* except: if temp_zip.exists(): temp_zip.unlink(); raise
CleanedUp(w, cr, temp_zip) ==
    [w |-> IF Exists(w, temp_zip) THEN Unlink(w, temp_zip) ELSE w, c |-> To(cr, "fail")]

Cleanup(w, c, cr) == CleanedUp(w, cr, temp_zip_path(cr))

UnlinkWorking(w, cr) ==
    IF cr.working # cr.source /\ Exists(w, cr.working) THEN Unlink(w, cr.working) ELSE w

\* The clean-up after the copy, and the one of the except clause
Post(w, c, cr) == [w |-> UnlinkWorking(w, cr), c |-> Finish(cr, TRUE)]
Fail(w, c, cr) == [w |-> UnlinkWorking(w, cr), c |-> Finish(cr, FALSE)]

-----------------------------------------------------------------------------
(* The packages, profiles and settings the calls are run on                *)

CubeVerts ==
    <<Vertex(0, 0, 0), Vertex(1, 0, 0), Vertex(0, 1, 0), Vertex(1, 1, 0),
      Vertex(0, 0, 1), Vertex(1, 0, 1), Vertex(0, 1, 1), Vertex(1, 1, 1)>>

ContentTypes == Part("[Content_Types].xml", Blob(1))
Rels == Part("_rels/.rels", Blob(2))
Thumbnail == Part("Metadata/thumbnail.png", Blob(3))

CubeModel == Model(<<MeshObject("1", "Cube", CubeVerts)>>, <<Item("1", At(10, 20, 30), "")>>)

TwoPlateModel ==
    Model(<<ContainerObject("2", "", <<Component("/3D/Objects/o1.model", "1", At(1, 2, 3))>>),
            MeshObject("3", "Lid", CubeVerts)>>,
          <<Item("2", At(50, 50, 0), "1"), Item("3", At(150, 50, 0), "1")>>)

InnerModel ==
    [res |-> TRUE, objects |-> <<MeshObject("1", "Inner", CubeVerts)>>,
     build |-> FALSE, items |-> <<>>]

SettingsObject(id, name, extruder, matrix) ==
    [id |-> id, name |-> name, extruders |-> <<extruder>>, matrices |-> <<matrix>>]
SettingsPlate(plater_id, plater_name, object_id) ==
    [plater_id |-> plater_id, plater_name |-> plater_name,
     instances |-> <<[object_id |-> object_id, instance_id |-> "0", identify_id |-> "100"]>>]

CubeSettings ==
    [objs |-> <<SettingsObject("1", "Cube", "1", Matrix16(0, 0, 0))>>,
     plates |-> <<SettingsPlate("1", "Plate A", "1")>>, hasAsm |-> FALSE, asm |-> <<>>]

TwoToolSettings ==
    [objs |-> <<SettingsObject("2", "Box", "1", Matrix16(5, 6, 7)),
                SettingsObject("3", "Lid", "2", Matrix16(0, 0, 0))>>,
     plates |-> <<SettingsPlate("1", "", "2"), SettingsPlate("2", "", "3")>>,
     hasAsm |-> FALSE, asm |-> <<>>]

\* The project settings a Bambu Studio export carries
BambuConfig ==
    [filament_colour |-> List(<<"#00FF00">>),
     nozzle_temperature |-> List(<<"215", "225">>),
     bed_temperature |-> Scalar("55"),
     wipe_tower_x |-> List(<<"5">>),
     wipe_tower_y |-> Scalar("300.5"),
     prime_tower_width |-> Scalar("35"),
     prime_volume |-> Scalar("-3.7"),
     wall_filament |-> Scalar("0"),
     sparse_infill_filament |-> Scalar("two"),
     time_lapse_gcode |-> Scalar("M971"),
     machine_start_gcode |-> Scalar("BAMBU_START"),
     printer_model |-> Scalar("Bambu Lab X1")]

\* A package of another vendor, with parts the core does not know
VendorParts ==
    <<ContentTypes, Rels, Part(MODEL_PATH, ModelXml(CubeModel)), Thumbnail,
      Part("Metadata/topology.bin", Blob(4)), Part("Metadata/vendor.xml", Blob(5))>>

\* A single-tool Bambu Studio export
BambuParts ==
    <<ContentTypes, Rels, Part(MODEL_PATH, ModelXml(CubeModel)),
      Part(MODEL_SETTINGS_PATH, SettingsXml(CubeSettings)),
      Part(PROJECT_SETTINGS_PATH, ConfigJson(BambuConfig)),
      Part(SLICE_INFO_PATH, Blob(6)), Part("Metadata/plate_1.png", Blob(7))>>

\* A two-plate, two-tool Bambu Studio export with a sub-model
TwoToolParts ==
    <<ContentTypes, Rels, Part("3D/Objects/o1.model", ModelXml(InnerModel)),
      Part(MODEL_PATH, ModelXml(TwoPlateModel)),
      Part(MODEL_SETTINGS_PATH, SettingsXml(TwoToolSettings)),
      Part(PROJECT_SETTINGS_PATH, ConfigJson(BambuConfig)),
      Part(CUT_INFO_PATH, Blob(8)), Thumbnail>>

\* A Bambu Studio export whose colours change by layer (type 2 = tool change)
LayerChangeParts ==
    <<ContentTypes, Rels, Part(MODEL_PATH, ModelXml(CubeModel)),
      Part(PROJECT_SETTINGS_PATH, ConfigJson(BambuConfig)),
      Part(SLICE_INFO_PATH, Blob(6)), Part(LAYER_GCODE_PATH, LayersXml(<<"2">>))>>

\* A plain package whose build list starts with an item that is not printed
\* and has a 16-element transform; its one printable item has no transform
SpareModel ==
    Model(<<MeshObject("1", "Cube", CubeVerts), MeshObject("3", "Lid", CubeVerts)>>,
          <<Item("3", At16(1, 1, 1), "0"), Item("1", <<>>, "")>>)

PlainParts == <<ContentTypes, Rels, Part(MODEL_PATH, ModelXml(SpareModel))>>

\* A package that is no Bambu export (none of the three marker parts) and
\* carries settings and a layer-event part with a tool change
LayerOnlyParts ==
    <<ContentTypes, Rels, Part(MODEL_PATH, ModelXml(CubeModel)),
      Part(PROJECT_SETTINGS_PATH, ConfigJson(BambuConfig)),
      Part(LAYER_GCODE_PATH, LayersXml(<<"2">>))>>

\* Packages a rewrite fails on midway: a model that does not parse, and an
\* entry whose stored checksum does not match
BadModelParts == <<ContentTypes, Part(MODEL_PATH, Malformed(ModelXml(CubeModel))), Rels>>
CorruptParts ==
    <<ContentTypes, Part(MODEL_PATH, ModelXml(TwoPlateModel)),
      Part("3D/Objects/o1.model", ModelXml(InnerModel)),
      Part("Metadata/thumbnail.png", BadCrc(Blob(3))), Rels>>

Packages ==
    {File(VendorParts), File(BambuParts), File(TwoToolParts), File(LayerChangeParts),
     File(LayerOnlyParts), File(PlainParts), File(BadModelParts), File(CorruptParts), NotAZip}

\* What a destination may hold before a call
PriorFile == File(<<ContentTypes, Part(MODEL_PATH, ModelXml(CubeModel))>>)

\* The profile directories and the JSON files in them
PROFILE_DIR == "/app/orca_profiles"
OTHER_PROFILE_DIR == "/srv/orca_profiles"

SnapmakerProfiles ==
    [printer |-> [name |-> Scalar("Snapmaker U1 (0.4 nozzle) - multiplate"),
                  machine_start_gcode |-> Scalar("U1_START"),
                  gcode_flavor |-> Scalar("klipper"),
                  printer_model |-> Scalar("Snapmaker U1")],
     process |-> [name |-> Scalar("0.20mm Standard @Snapmaker U1"),
                  layer_height |-> Scalar("0.2"), wall_filament |-> Scalar("1")],
     filament |-> [name |-> Scalar("PLA @Snapmaker U1"),
                   filament_type |-> List(<<"PLA">>),
                   filament_colour |-> List(<<"#FFFFFF">>)]]

OtherProfiles == [SnapmakerProfiles EXCEPT !.process.layer_height = Scalar("0.3")]

ProfileFiles(profile_dir) ==
    IF profile_dir = PROFILE_DIR THEN [ok |-> TRUE, profiles |-> SnapmakerProfiles]
    ELSE IF profile_dir = OTHER_PROFILE_DIR THEN [ok |-> TRUE, profiles |-> OtherProfiles]
    ELSE [ok |-> FALSE, profiles |-> NoProfiles]

FilamentChoices == {NoCfg, [filament_colour |-> List(<<"#FF0000">>)]}
OverrideChoices ==
    {NoCfg, [layer_height |-> Scalar("0.12")],
     [layer_height |-> Scalar("0.12"), prime_volume |-> Scalar("-3"),
      wall_filament |-> Scalar("2")]}
RemapChoices == {NoRemap, 2 :> 1}

\* load_snapmaker_profiles: the three JSON files are read
Loaded(w, cr, f) ==
    [w |-> w,
     c |-> IF f.ok THEN [cr EXCEPT !.loaded = f.profiles, !.pc = "cache_profiles"]
           ELSE To(cr, "fail")]

LoadRead(w, c, cr) == Loaded(w, cr, ProfileFiles(cr.args.pdir))

\* One step of embed_profiles, and the call run to its end on its own
Step(w, c, cr, luck) ==
    CASE cr.pc = "load_check" -> LoadCheck(w, c, cr)
      [] cr.pc = "load_read" -> LoadRead(w, c, cr)
      [] cr.pc = "cache_profiles" -> CacheProfiles(w, c, cr)
      [] cr.pc = "cache_dir" -> CacheDir(w, c, cr)
      [] cr.pc = "load_return" -> LoadReturn(w, c, cr)
      [] cr.pc = "detect" -> Detect(w, c, cr)
      [] cr.pc = "rebuild" -> Rebuild(w, c, cr)
      [] cr.pc = "open" -> OpenBoth(w, c, cr)
      [] cr.pc = "copy" /\ cr.k <= Len(cr.list) -> CopyEntry(w, c, cr, luck)
      [] cr.pc = "copy" /\ cr.k > Len(cr.list) -> Inject(w, c, cr)
      [] cr.pc = "close" -> CloseBoth(w, c, cr, luck)
      [] cr.pc = "replace" -> Replace(w, c, cr)
      [] cr.pc = "cleanup" -> Cleanup(w, c, cr)
      [] cr.pc = "post" -> Post(w, c, cr)
      [] cr.pc = "fail" -> Fail(w, c, cr)

RECURSIVE RunFrom(_, _)
RunFrom(c, r) == IF r.c.pc = "done" THEN r ELSE RunFrom(c, Step(r.w, c, r.c, TRUE))

RunAlone(w, c, cr) == RunFrom(c, [w |-> w, c |-> cr])

-----------------------------------------------------------------------------
(* The rewrite operations, one call at a time                              *)

SOURCE == "u/a.3mf"
DEST == "w/o1.3mf"

\* scale_percent is not examined before the 100 percent test, so a scale of
\* 0 reaches the rewrite like any other.  No transform of the packages has
\* a negative value, so the product with 0.0 is never written as -0.
ScalePercents == {0, 50, 100, 150}
MaxCopies == 4
MaxPlate == 3
MaxTools == 3
Spacings == {0, 5 * Unit}

Now == World(dir, ino, cache)

Apply(c, r) ==
    /\ dir' = r.w.dir
    /\ ino' = r.w.ino
    /\ cache' = r.w.cache
    /\ call' = [call EXCEPT ![c] = r.c]
    /\ UNCHANGED <<grid, scan, gx, meta>>

At_(c, pc) == call[c].pc = pc

UniformScale(c) ==
    /\ At_(c, "idle")
    /\ \E pct \in ScalePercents :
         Apply(c, apply_uniform_scale_to_3mf(Now, c,
                    Begin(Now, "uniform_scale", SOURCE, DEST, [NoArgs EXCEPT !.pct = pct])))

LayoutScale(c) ==
    /\ At_(c, "idle")
    /\ \E pct \in ScalePercents :
         Apply(c, apply_layout_scale_to_3mf(Now, c,
                    Begin(Now, "layout_scale", SOURCE, DEST, [NoArgs EXCEPT !.pct = pct])))

Copies(c) ==
    /\ At_(c, "idle")
    /\ \E copies \in 0..MaxCopies, spacing \in Spacings :
         Apply(c, apply_copies_to_3mf(Now, c,
                    Begin(Now, "copies", SOURCE, DEST,
                          [NoArgs EXCEPT !.copies = copies, !.spacing = spacing])))

ExtractPlate(c) ==
    /\ At_(c, "idle")
    /\ \E target_plate_id \in 1..MaxPlate :
         Apply(c, extract_plate_to_3mf(Now, c,
                    Begin(Now, "extract", SOURCE, DEST,
                          [NoArgs EXCEPT !.plate = target_plate_id])))

EmbedArgs ==
    {[NoArgs EXCEPT !.pdir = PROFILE_DIR, !.F = F, !.O = O, !.n = n, !.remap = remap,
                    !.pg = pg] :
       F \in FilamentChoices, O \in OverrideChoices, n \in 1..MaxTools,
       remap \in RemapChoices, pg \in BOOLEAN}

EmbedProfiles(c) ==
    /\ At_(c, "idle")
    /\ \E args \in EmbedArgs :
         call' = [call EXCEPT ![c] = To(Begin(Now, "embed", SOURCE, DEST, args), "load_check")]
    /\ UNCHANGED <<dir, ino, cache, grid, scan, gx, meta>>

EmbedLoadCheck(c) == At_(c, "load_check") /\ Apply(c, LoadCheck(Now, c, call[c]))
EmbedLoadRead(c) == At_(c, "load_read") /\ Apply(c, LoadRead(Now, c, call[c]))
EmbedCacheProfiles(c) == At_(c, "cache_profiles") /\ Apply(c, CacheProfiles(Now, c, call[c]))
EmbedCacheDir(c) == At_(c, "cache_dir") /\ Apply(c, CacheDir(Now, c, call[c]))
EmbedLoadReturn(c) == At_(c, "load_return") /\ Apply(c, LoadReturn(Now, c, call[c]))
EmbedDetect(c) == At_(c, "detect") /\ Apply(c, Detect(Now, c, call[c]))
EmbedRebuild(c) == At_(c, "rebuild") /\ Apply(c, Rebuild(Now, c, call[c]))
EmbedOpen(c) == At_(c, "open") /\ Apply(c, OpenBoth(Now, c, call[c]))
EmbedCopy(c) ==
    /\ At_(c, "copy") /\ call[c].k <= Len(call[c].list)
    /\ \E luck \in BOOLEAN : Apply(c, CopyEntry(Now, c, call[c], luck))
EmbedInject(c) ==
    /\ At_(c, "copy") /\ call[c].k > Len(call[c].list)
    /\ Apply(c, Inject(Now, c, call[c]))
EmbedClose(c) ==
    /\ At_(c, "close")
    /\ \E luck \in BOOLEAN : Apply(c, CloseBoth(Now, c, call[c], luck))
EmbedReplace(c) == At_(c, "replace") /\ Apply(c, Replace(Now, c, call[c]))
EmbedCleanup(c) == At_(c, "cleanup") /\ Apply(c, Cleanup(Now, c, call[c]))
EmbedPost(c) == At_(c, "post") /\ Apply(c, Post(Now, c, call[c]))
EmbedFail(c) == At_(c, "fail") /\ Apply(c, Fail(Now, c, call[c]))

\* The files before a call: the source, if any, and the destination, if any
Empty == World(NoFiles, NoFiles, ColdCache)

WithFile(w, p, files) == IF files = <<>> THEN w ELSE PutFile(w, p, 0, files[1])

Files(sources, prior) == WithFile(WithFile(Empty, SOURCE, sources), DEST, prior)

Init ==
    /\ \E sources \in {<<>>} \cup {<<f>> : f \in Packages}, prior \in {<<>>, <<PriorFile>>} :
          /\ dir = Files(sources, prior).dir
          /\ ino = Files(sources, prior).ino
    /\ cache = ColdCache
    /\ call = [c \in {1} |-> Idle]
    /\ grid = 0 /\ scan = 0 /\ gx = 0 /\ meta = 0

Callers == {1}

Next ==
    \/ \E c \in Callers : UniformScale(c)
    \/ \E c \in Callers : LayoutScale(c)
    \/ \E c \in Callers : Copies(c)
    \/ \E c \in Callers : ExtractPlate(c)
    \/ \E c \in Callers : EmbedProfiles(c)
    \/ \E c \in Callers : EmbedLoadCheck(c)
    \/ \E c \in Callers : EmbedLoadRead(c)
    \/ \E c \in Callers : EmbedCacheProfiles(c)
    \/ \E c \in Callers : EmbedCacheDir(c)
    \/ \E c \in Callers : EmbedLoadReturn(c)
    \/ \E c \in Callers : EmbedDetect(c)
    \/ \E c \in Callers : EmbedRebuild(c)
    \/ \E c \in Callers : EmbedOpen(c)
    \/ \E c \in Callers : EmbedCopy(c)
    \/ \E c \in Callers : EmbedInject(c)
    \/ \E c \in Callers : EmbedClose(c)
    \/ \E c \in Callers : EmbedReplace(c)
    \/ \E c \in Callers : EmbedCleanup(c)
    \/ \E c \in Callers : EmbedPost(c)
    \/ \E c \in Callers : EmbedFail(c)

Spec == Init /\ [][Next]_vars

-----------------------------------------------------------------------------
(* Properties of the rewrite operations                                    *)

Ended(c) == call[c].pc = "done"
Succeeded(c) == Ended(c) /\ call[c].ok
Failed(c) == Ended(c) /\ ~call[c].ok

\* What the destination of call c holds now
Output(c) == Held(Now, call[c].dest)

\* The parts an operation is documented to touch.  The mesh re-export of
\* the embed replaces the whole package, so every part is its target.
Targeted(cr, name) ==
    CASE cr.op = "embed" ->
           \/ cr.plan.rebuild
           \/ name \in bambu_metadata_files \cup {MODEL_SETTINGS_PATH}
           \/ IsPreviewName(name) /\ EndsWith(name, ".png")
      [] cr.op \in {"uniform_scale", "layout_scale"} ->
           EndsWith(name, ".model") \/ name = MODEL_SETTINGS_PATH
      [] cr.op = "copies" -> name \in {MODEL_PATH, MODEL_SETTINGS_PATH}
      [] cr.op = "extract" -> name = MODEL_PATH
      [] OTHER -> FALSE

PassedThrough(part, parts) == \E j \in 1..Len(parts) : parts[j] = part

Untargeted(cr) == {i \in 1..Len(cr.src0.parts) : ~Targeted(cr, cr.src0.parts[i].name)}

\* C1: after a rewrite that succeeded, every part of the source that the
\* operation does not target is in the destination under its name, with
\* the same bytes.
UntargetedPartsPassThrough ==
    \A c \in DOMAIN call :
        Succeeded(c) =>
            \A i \in Untargeted(call[c]) : PassedThrough(call[c].src0.parts[i], Output(c).parts)

\* C2: after a rewrite that failed, the destination holds what it held
\* before the call, and is absent if it was absent.
AllOrNothing ==
    \A c \in DOMAIN call : Failed(c) => Output(c) = call[c].before

IsScale(cr) == cr.op \in {"uniform_scale", "layout_scale"}

\* C4: a uniform or offset-only scale by 100 percent of a source that
\* exists succeeds and leaves in the destination the parts of the source,
\* in their order and with their bytes, and nothing else.
ScaleBy100IsCopy ==
    \A c \in DOMAIN call :
        (Ended(c) /\ IsScale(call[c]) /\ call[c].args.pct = 100 /\ call[c].src0.exists) =>
            /\ call[c].ok
            /\ Output(c).exists
            /\ Output(c).parts = call[c].src0.parts
            /\ Output(c).readable = call[c].src0.readable

\* A package with a model part and a settings part was scaled by 100
\* percent over a destination that held something else
ScaleBy100Done ==
    \E c \in DOMAIN call :
        /\ Succeeded(c) /\ IsScale(call[c]) /\ call[c].args.pct = 100
        /\ HasPart(call[c].src0.parts, MODEL_SETTINGS_PATH)
        /\ HasPart(call[c].src0.parts, "3D/Objects/o1.model")
        /\ call[c].before.exists
        /\ call[c].before.parts # call[c].src0.parts
        /\ Output(c).parts = call[c].src0.parts

-----------------------------------------------------------------------------
(* Two embeds at once: embed_profiles_async runs each call in a thread of  *)
(* its own, and the threads interleave between any two steps.              *)

SOURCE_B == "u/b.3mf"
ConcCallers == {1, 2}
ConcSources == <<{VendorParts, BambuParts}, {VendorParts, TwoToolParts}>>
ConcDests == <<{DEST}, {"w/o1.zip", "w/o2.3mf"}>>
ProfileDirs == {PROFILE_DIR, OTHER_PROFILE_DIR}

\* What the call yields when nothing else runs: its outcome and its output
AloneOf(cr, r) == [cr EXCEPT !.alone = [ok |-> r.c.ok, held |-> Held(r.w, cr.dest)]]

WithAlone(w, c, cr) == AloneOf(cr, RunAlone(w, c, cr))

Embedding(w, c, source, dest, profile_dir) ==
    WithAlone(w, c, To(Begin(w, "embed", source, dest,
                             [NoArgs EXCEPT !.pdir = profile_dir, !.n = 2]),
                       "load_check"))

InitFrom(w, d, pd) ==
    /\ dir = w.dir
    /\ ino = w.ino
    /\ cache = w.cache
    /\ call = [c \in ConcCallers |->
                 Embedding(w, c, IF c = 1 THEN SOURCE ELSE SOURCE_B, d[c], pd[c])]
    /\ grid = 0 /\ scan = 0 /\ gx = 0 /\ meta = 0

InitConc ==
    \E a \in ConcSources[1], b \in ConcSources[2], d1 \in ConcDests[1], d2 \in ConcDests[2],
       p1 \in ProfileDirs, p2 \in ProfileDirs :
        InitFrom(WithFile(WithFile(Empty, SOURCE, <<File(a)>>), SOURCE_B, <<File(b)>>),
                 <<d1, d2>>, <<p1, p2>>)

NextConc ==
    \/ \E c \in ConcCallers : EmbedLoadCheck(c)
    \/ \E c \in ConcCallers : EmbedLoadRead(c)
    \/ \E c \in ConcCallers : EmbedCacheProfiles(c)
    \/ \E c \in ConcCallers : EmbedCacheDir(c)
    \/ \E c \in ConcCallers : EmbedLoadReturn(c)
    \/ \E c \in ConcCallers : EmbedDetect(c)
    \/ \E c \in ConcCallers : EmbedRebuild(c)
    \/ \E c \in ConcCallers : EmbedOpen(c)
    \/ \E c \in ConcCallers : EmbedCopy(c)
    \/ \E c \in ConcCallers : EmbedInject(c)
    \/ \E c \in ConcCallers : EmbedClose(c)
    \/ \E c \in ConcCallers : EmbedReplace(c)
    \/ \E c \in ConcCallers : EmbedCleanup(c)
    \/ \E c \in ConcCallers : EmbedPost(c)
    \/ \E c \in ConcCallers : EmbedFail(c)

SpecConc == InitConc /\ [][NextConc]_vars

AllEnded == \A c \in DOMAIN call : Ended(c)

\* C3: when two embeds with different sources and different destinations
\* have both ended, each has the outcome, and its destination the
\* package, that the call yields when it runs alone.
NoInterference ==
    AllEnded =>
        \A c \in DOMAIN call :
            /\ call[c].ok = call[c].alone.ok
            /\ Output(c) = call[c].alone.held

\* The profiles the files of a directory hold
ProfilesOf(profile_dir) == ProfileFiles(profile_dir).profiles

\* Whenever the cache names a directory, it holds the profiles of that
\* directory
CacheMatchesItsDir ==
    (cache.loaded /\ cache.dir # "") => cache.profiles = ProfilesOf(cache.dir)

\* The profiles a call got from load_snapmaker_profiles are those of the
\* directory of its embedder
ReturnedOwnProfiles ==
    \A c \in DOMAIN call :
        call[c].profiles # NoProfiles => call[c].profiles = ProfilesOf(call[c].args.pdir)

\* C28: under every interleaving of the calls the cache holds the
\* profiles of the directory it names, and no call gets profiles that
\* were loaded from a directory other than its embedder's.
ProfileCacheCoherent == CacheMatchesItsDir /\ ReturnedOwnProfiles

-----------------------------------------------------------------------------
(* An embed, and then the same embed again on what the first produced      *)

DEST_2 == "w/o2.3mf"

AgainArgs ==
    {[NoArgs EXCEPT !.pdir = PROFILE_DIR, !.F = F, !.O = O, !.n = n, !.pg = pg] :
       F \in FilamentChoices, O \in OverrideChoices, n \in 1..MaxTools, pg \in BOOLEAN}

EmbedFirst(c) ==
    /\ At_(c, "idle")
    /\ \E args \in AgainArgs :
         call' = [call EXCEPT ![c] = To(Begin(Now, "embed", SOURCE, DEST, args), "load_check")]
    /\ UNCHANGED <<dir, ino, cache, grid, scan, gx, meta>>

\* The second call: the output of the first is its source, (F, O, n) are
\* the same; prev keeps what the first call produced
Again(w, cr) ==
    [To(Begin(w, "embed", cr.dest, DEST_2, cr.args), "load_check")
       EXCEPT !.round = 2, !.prev = Held(w, cr.dest)]

EmbedAgain(c) ==
    /\ Succeeded(c) /\ call[c].round = 1
    /\ call' = [call EXCEPT ![c] = Again(Now, call[c])]
    /\ UNCHANGED <<dir, ino, cache, grid, scan, gx, meta>>

InitEmbed ==
    /\ \E source \in Packages :
          /\ dir = Files(<<source>>, <<>>).dir
          /\ ino = Files(<<source>>, <<>>).ino
    /\ cache = ColdCache
    /\ call = [c \in Callers |-> Idle]
    /\ grid = 0 /\ scan = 0 /\ gx = 0 /\ meta = 0

NextEmbed ==
    \/ \E c \in Callers : EmbedFirst(c)
    \/ \E c \in Callers : EmbedAgain(c)
    \/ \E c \in Callers : EmbedLoadCheck(c)
    \/ \E c \in Callers : EmbedLoadRead(c)
    \/ \E c \in Callers : EmbedCacheProfiles(c)
    \/ \E c \in Callers : EmbedCacheDir(c)
    \/ \E c \in Callers : EmbedLoadReturn(c)
    \/ \E c \in Callers : EmbedDetect(c)
    \/ \E c \in Callers : EmbedRebuild(c)
    \/ \E c \in Callers : EmbedOpen(c)
    \/ \E c \in Callers : EmbedCopy(c)
    \/ \E c \in Callers : EmbedInject(c)
    \/ \E c \in Callers : EmbedClose(c)
    \/ \E c \in Callers : EmbedReplace(c)
    \/ \E c \in Callers : EmbedCleanup(c)
    \/ \E c \in Callers : EmbedPost(c)
    \/ \E c \in Callers : EmbedFail(c)

SpecEmbed == InitEmbed /\ [][NextEmbed]_vars

\* The settings part of a package
SettingsOf(held) == ReadPart(held.parts, PROJECT_SETTINGS_PATH)

\* C5: the second of two embeds with the same (F, O, n) succeeds and
\* leaves a settings part equal to the one the first embed produced.
EmbedTwiceSameSettings ==
    \A c \in DOMAIN call :
        (Ended(c) /\ call[c].round = 2) =>
            /\ call[c].ok
            /\ HasPart(Output(c).parts, PROJECT_SETTINGS_PATH)
            /\ SettingsOf(Output(c)) = SettingsOf(call[c].prev)

\* The settings an embed emitted, and the settings its source carried
Emitted(c) == SettingsOf(Output(c)).cfg

SourceSettings(cr) ==
    IF HasPart(cr.src0.parts, PROJECT_SETTINGS_PATH) THEN SettingsOf(cr.src0).cfg ELSE NoCfg

\* The value of a key before any padding: the overrides win over the
\* filament settings, these over the filament, process and (for the
\* assignment-preserving path) the source's own settings; a scalar counts
\* as an array of one.
Layers(cr) ==
    <<cr.args.O, cr.args.F, cr.profiles.filament, cr.profiles.process,
      IF cr.plan.preserve THEN SourceSettings(cr) ELSE cr.profiles.printer>>

Original(cr, key) ==
    LET has == {i \in 1..Len(Layers(cr)) : key \in DOMAIN Layers(cr)[i]}
    IN  IF has = {} THEN <<>>
        ELSE Layers(cr)[CHOOSE i \in has : \A j \in has : i <= j][key].v

\* max(detected_tool_count, n, 1)
ToolSlots(cr) ==
    MaxOf(MaxOf(get_assigned_extruder_count(File(cr.src0.parts)), cr.args.n), 1)

\* out is orig, followed by copies of its last entry up to slots entries
PaddedFrom(orig, out, slots) ==
    /\ Len(out) = MaxOf(Len(orig), slots)
    /\ \A i \in 1..Len(out) : out[i] = IF i <= Len(orig) THEN orig[i] ELSE orig[Len(orig)]

PerToolKeys == DOMAIN list_defaults

FirstEmbedDone(c) == Succeeded(c) /\ call[c].op = "embed" /\ call[c].round = 1

-----------------------------------------------------------------------------
(* The grid layout on its own                                              *)

MaxCount == 9
Widths == {0, 20 * Unit, 100 * Unit}
Depths == {0, 30 * Unit, 100 * Unit}
GridSpacings == {0, 5 * Unit}

NoGrid == [done |-> FALSE, raised |-> FALSE, width |-> 0, depth |-> 0, count |-> 0,
           spacing |-> 0, positions |-> <<>>, fits_bed |-> FALSE, max_copies |-> 0]

\* A call of calculate_grid_layout, with what it returned; it raises
\* ValueError, and returns nothing, when copies < 1.  Beside it, what
\* grid_fits_bed and estimate_max_copies report for the same item, as
\* apply_copies_to_3mf asks them.
GridLayout ==
    /\ \E width \in Widths, depth \in Depths, count \in 0..MaxCount, spacing \in GridSpacings :
         grid' = [done |-> TRUE, raised |-> count < 1, width |-> width, depth |-> depth,
                  count |-> count, spacing |-> spacing,
                  positions |-> IF count < 1 THEN <<>>
                                ELSE calculate_grid_layout(width, depth, count, spacing),
                  fits_bed |-> count >= 1 /\ grid_fits_bed(width, depth, count, spacing),
                  max_copies |-> estimate_max_copies(width, depth, spacing)]
    /\ UNCHANGED <<dir, ino, cache, call, scan, gx, meta>>

InitGrid ==
    /\ grid = NoGrid
    /\ dir = NoFiles /\ ino = NoFiles /\ cache = ColdCache
    /\ call = [c \in {} |-> Idle]
    /\ scan = 0 /\ gx = 0 /\ meta = 0

NextGrid == GridLayout

SpecGrid == InitGrid /\ [][NextGrid]_vars

Distinct(positions) ==
    \A i \in 1..Len(positions) : \A j \in 1..Len(positions) :
        i # j => positions[i] # positions[j]

CellsWithinBed ==
    \A k \in 1..Len(grid.positions) :
        /\ 2 * grid.positions[k][1] - grid.width >= -Unit
        /\ 2 * grid.positions[k][1] + grid.width <= 2 * BED_SIZE_X + Unit
        /\ 2 * grid.positions[k][2] - grid.depth >= -Unit
        /\ 2 * grid.positions[k][2] + grid.depth <= 2 * BED_SIZE_Y + Unit

\* C29: for an item with a width and a depth, every copy count from 1 to
\* max_copies has fits_bed true, and fits_bed is true exactly when every
\* cell lies within the bed widened by 0.5.
MaxCopiesFitBed ==
    (grid.done /\ ~grid.raised) =>
        /\ grid.fits_bed <=> CellsWithinBed
        /\ (grid.width > 0 /\ grid.depth > 0 /\ grid.count <= grid.max_copies) =>
              grid.fits_bed

\* The part of C29 the code keeps: what fits_bed says
FitsBedIsCellsWithinBed == (grid.done /\ ~grid.raised) => (grid.fits_bed <=> CellsWithinBed)

-----------------------------------------------------------------------------
(* Plate detection and plate bounds on their own                           *)

MaxItems == 3

SlabVerts == <<Vertex(-2, -1, 0), Vertex(4, -1, 0), Vertex(4, 3, 5), Vertex(-2, 3, 5)>>

\* A transform that scales by two and moves by (5, 0, 0)
Doubled == <<2 * Unit, 0, 0, 0, 2 * Unit, 0, 0, 0, 2 * Unit, 5 * Unit, 0, 0>>

PlateObjects == <<MeshObject("1", "Cube", CubeVerts), MeshObject("2", "Slab", SlabVerts)>>

\* An item whose object id is not among the resources
StrayItem == Item("9", <<>>, "")

ItemChoices ==
    {Item(id, transform, "") : id \in {"1", "2"}, transform \in {<<>>, At(10, 20, 30), Doubled}}
    \cup {StrayItem}

BuildLists == UNION {[1..n -> ItemChoices] : n \in 0..MaxItems}

PlatePackage(items) ==
    File(<<ContentTypes, Rels, Part(MODEL_PATH, ModelXml(Model(PlateObjects, items)))>>)

\* The same package without a build element
NoBuildPackage ==
    File(<<ContentTypes, Rels,
           Part(MODEL_PATH, ModelXml([Model(PlateObjects, <<>>) EXCEPT !.build = FALSE]))>>)

NoScan == [done |-> FALSE, build |-> TRUE, items |-> <<>>, parsed |-> [ok |-> FALSE, plates |-> <<>>,
           multi |-> FALSE], plate |-> 0, bounds |-> NoXmlBounds]

\* parse_multi_plate_3mf on a package with the given build list, or with none
DetectPlates ==
    /\ ~scan.done
    /\ \/ \E items \in BuildLists :
            scan' = [NoScan EXCEPT !.done = TRUE, !.items = items,
                                   !.parsed = parse_multi_plate_3mf(PlatePackage(items))]
       \/ scan' = [NoScan EXCEPT !.done = TRUE, !.build = FALSE,
                                 !.parsed = parse_multi_plate_3mf(NoBuildPackage)]
    /\ UNCHANGED <<dir, ino, cache, call, grid, gx, meta>>

\* _calculate_xml_bounds for one plate of the package last parsed
PlateBounds ==
    /\ scan.done
    /\ \E plate_id \in 1..Len(scan.items) :
         scan' = [scan EXCEPT !.plate = plate_id,
                              !.bounds = calculate_xml_bounds(PlatePackage(scan.items),
                                                              plate_id)]
    /\ UNCHANGED <<dir, ino, cache, call, grid, gx, meta>>

InitPlates ==
    /\ scan = NoScan
    /\ dir = NoFiles /\ ino = NoFiles /\ cache = ColdCache
    /\ call = [c \in {} |-> Idle]
    /\ grid = 0 /\ gx = 0 /\ meta = 0

NextPlates == DetectPlates \/ PlateBounds

SpecPlates == InitPlates /\ [][NextPlates]_vars

\* C7: a package is reported multi-plate exactly when its build list has
\* more than one item; it then has one plate per item, in build order,
\* plate i with plate_id i and the object id of item i, also when items
\* share an object id.
PlatePerBuildItem ==
    (scan.done /\ scan.parsed.ok) =>
        /\ scan.parsed.multi <=> Len(scan.items) > 1
        /\ scan.parsed.multi =>
              /\ Len(scan.parsed.plates) = Len(scan.items)
              /\ \A i \in 1..Len(scan.items) :
                    /\ scan.parsed.plates[i].plate_id = i
                    /\ scan.parsed.plates[i].object_id = scan.items[i].objectid

\* Two items of the same object were parsed into plates 1 and 2
TwoPlatesOfOneObject ==
    /\ scan.done /\ scan.parsed.ok /\ scan.parsed.multi
    /\ Len(scan.items) = 2
    /\ scan.items[1].objectid = scan.items[2].objectid
    /\ Len(scan.parsed.plates) = 2
    /\ scan.parsed.plates[2].plate_id = 2

\* The least and the greatest coordinate of a mesh on one axis
Least(verts, axis) ==
    CHOOSE m \in {verts[i][axis] : i \in 1..Len(verts)} :
        \A i \in 1..Len(verts) : m <= verts[i][axis]
Greatest(verts, axis) ==
    CHOOSE m \in {verts[i][axis] : i \in 1..Len(verts)} :
        \A i \in 1..Len(verts) : m >= verts[i][axis]

HasMesh(item) == \E i \in 1..Len(PlateObjects) : PlateObjects[i].id = item.objectid

MeshOf(item) == (CHOOSE o \in {PlateObjects[i] : i \in 1..Len(PlateObjects)} :
                    o.id = item.objectid).verts

\* The translation an item's transform names on an axis, zero without one
ShiftOf(item, axis) == IF item.transform = <<>> THEN 0 ELSE item.transform[9 + axis]

\* C8: the bounds of a plate whose object is a mesh are, on each axis, the
\* least and the greatest coordinate of the mesh, each moved by the
\* translation of the item's transform, and by nothing without one.
PlateBoundsAreShiftedMesh ==
    (scan.done /\ scan.plate # 0 /\ HasMesh(scan.items[scan.plate])) =>
        /\ scan.bounds.ok /\ scan.bounds.found
        /\ \A axis \in 1..3 :
              /\ scan.bounds.min[axis] =
                    Least(MeshOf(scan.items[scan.plate]), axis)
                    + ShiftOf(scan.items[scan.plate], axis)
              /\ scan.bounds.max[axis] =
                    Greatest(MeshOf(scan.items[scan.plate]), axis)
                    + ShiftOf(scan.items[scan.plate], axis)

\* The unit cube placed at (10, 20, 30) as the second plate
CubeAt102030 ==
    /\ scan.done /\ scan.plate = 2
    /\ scan.items[2] = Item("1", At(10, 20, 30), "")
    /\ scan.bounds.min = <<10 * Unit, 20 * Unit, 30 * Unit>>
    /\ scan.bounds.max = <<11 * Unit, 21 * Unit, 31 * Unit>>

Stray(items) == \E i \in 1..Len(items) : ~HasMesh(items[i])

\* C19: the detection of the plates of a package whose build list is empty
\* or absent fails instead of returning a result, and an item whose object
\* id is not among the resources does not make the detection fail.
EmptyBuildListFails ==
    scan.done =>
        /\ (~scan.build \/ scan.items = <<>>) => ~scan.parsed.ok
        /\ (scan.items # <<>> /\ Stray(scan.items)) => scan.parsed.ok

\* The part of C19 the code keeps: the item of an unknown object is a
\* plate like the others
StrayItemIsAPlate ==
    (scan.done /\ Len(scan.items) > 1 /\ Stray(scan.items)) =>
        /\ scan.parsed.ok /\ scan.parsed.multi
        /\ Len(scan.parsed.plates) = Len(scan.items)

-----------------------------------------------------------------------------
(* parser_3mf.py: parse_3mf                                                *)
(* An Object3MF is [object_id, name, vertices]; the triangle count is      *)
(* taken where the vertex count is.  A name of "" is an absent attribute.  *)

\* What a component whose sub-file holds the referenced object gives: the
\* counts, the id and, if it has one, the name of that object, when the
\* object has a mesh
FromReferenced(acc, hit, ref_object_id) ==
    IF hit = <<>> \/ ~hit[1].mesh THEN acc
    ELSE [object_id |-> ref_object_id,
          name |-> IF hit[1].name # "" THEN hit[1].name ELSE acc.name,
          vertices |-> Len(hit[1].verts)]

FromSubModel(acc, d, ref_object_id) ==
    IF ~d.wf \/ ~d.model.res THEN acc
    ELSE FromReferenced(acc, FirstObject(d.model.objects, ref_object_id), ref_object_id)

\* The body of 'for component in components.findall(...)'
FromComponent(parts, acc, component) ==
    IF component.path = "" \/ component.objectid = "" THEN acc
    ELSE IF ~HasPart(parts, lstrip_slash(component.path)) THEN acc
    ELSE FromSubModel(acc, ReadPart(parts, lstrip_slash(component.path)),
                      component.objectid)

RECURSIVE FromComponents(_, _, _, _)
FromComponents(parts, comps, k, acc) ==
    IF k > Len(comps) THEN acc
    ELSE FromComponents(parts, comps, k + 1, FromComponent(parts, acc, comps[k]))

Object3MF(parts, obj) ==
    LET named == [object_id |-> obj.id,
                  name |-> IF obj.name # "" THEN obj.name ELSE "Object_" \o obj.id,
                  vertices |-> 0]
    IN  IF obj.mesh THEN [named EXCEPT !.vertices = Len(obj.verts)]
        ELSE FromComponents(parts, obj.comps, 1, named)

WithGeometry(o) == o.vertices > 0

ObjectsOf(parts, model) ==
    IF ~model.res THEN <<>>
    ELSE SelectSeq([k \in 1..Len(model.objects) |-> Object3MF(parts, model.objects[k])],
                   WithGeometry)

ParsedObjects(parts, d) ==
    IF ~d.crc \/ ~d.wf THEN [ok |-> FALSE, objects |-> <<>>]
    ELSE [ok |-> TRUE, objects |-> ObjectsOf(parts, d.model)]

\* parse_3mf: [ok, objects]; ok = FALSE where it raises ValueError
parse_3mf(file) ==
    IF ~file.readable \/ ~HasPart(file.parts, MODEL_PATH)
    THEN [ok |-> FALSE, objects |-> <<>>]
    ELSE ParsedObjects(file.parts, ReadPart(file.parts, MODEL_PATH))

-----------------------------------------------------------------------------
(* parse_3mf on a package with a mesh object and a container object        *)

MaxComps == 2

TriangleVerts == <<Vertex(0, 0, 0), Vertex(1, 0, 0), Vertex(0, 1, 0)>>

A_MODEL == "3D/Objects/a.model"
B_MODEL == "3D/Objects/b.model"
C_MODEL == "3D/Objects/c.model"

\* a.model: a mesh "PartA" of 8 vertices and a container that refers on
\* b.model: a mesh without name of 4 vertices and a mesh "PartB" of 3
\* c.model does not parse
ModelA ==
    [res |-> TRUE, build |-> FALSE, items |-> <<>>,
     objects |-> <<MeshObject("1", "PartA", CubeVerts),
                   ContainerObject("2", "Nested",
                                   <<Component("/" \o B_MODEL, "2", Identity12)>>)>>]
ModelB ==
    [res |-> TRUE, build |-> FALSE, items |-> <<>>,
     objects |-> <<MeshObject("1", "", SlabVerts), MeshObject("2", "PartB", TriangleVerts)>>]

ComponentChoices ==
    {Component("/" \o path, id, Identity12) :
        path \in {A_MODEL, B_MODEL}, id \in {"1", "2"}}
    \cup {Component("/" \o C_MODEL, "1", Identity12),
          Component("/3D/Objects/none.model", "1", Identity12),
          Component("", "1", Identity12),
          Component("/" \o A_MODEL, "", Identity12)}

ComponentLists == UNION {[1..n -> ComponentChoices] : n \in 0..MaxComps}

CONTAINER_ID == "5"

ObjectsPackage(name, comps) ==
    File(<<ContentTypes, Rels,
           Part(MODEL_PATH,
                ModelXml(Model(<<MeshObject("1", "Cube", CubeVerts),
                                 ContainerObject(CONTAINER_ID, name, comps)>>,
                               <<Item(CONTAINER_ID, <<>>, "")>>))),
           Part(A_MODEL, ModelXml(ModelA)),
           Part(B_MODEL, ModelXml(ModelB)),
           Part(C_MODEL, Malformed(ModelXml(ModelB)))>>)

NoObjects == [done |-> FALSE, name |-> "", comps |-> <<>>,
              parsed |-> [ok |-> FALSE, objects |-> <<>>]]

\* parse_3mf on the package whose container has this name and these components
ParseObjects ==
    /\ ~scan.done
    /\ \E name \in {"", "Box"}, comps \in ComponentLists :
         scan' = [done |-> TRUE, name |-> name, comps |-> comps,
                  parsed |-> parse_3mf(ObjectsPackage(name, comps))]
    /\ UNCHANGED <<dir, ino, cache, call, grid, gx, meta>>

InitObjects ==
    /\ scan = NoObjects
    /\ dir = NoFiles /\ ino = NoFiles /\ cache = ColdCache
    /\ call = [c \in {} |-> Idle]
    /\ grid = 0 /\ gx = 0 /\ meta = 0

NextObjects == ParseObjects

SpecObjects == InitObjects /\ [][NextObjects]_vars

\* The sub-files as the package holds them
SubModels == (A_MODEL :> ModelA) @@ (B_MODEL :> ModelB)

\* The object a component refers to, as a sequence of 0 or 1 objects:
\* the object of that id in the sub-file of that path
Referenced(component) ==
    IF component.objectid = "" \/ lstrip_slash(component.path) \notin DOMAIN SubModels
    THEN <<>>
    ELSE LET objects == SubModels[lstrip_slash(component.path)].objects
             hits == {i \in 1..Len(objects) : objects[i].id = component.objectid}
         IN  IF hits = {} THEN <<>> ELSE <<objects[CHOOSE i \in hits : TRUE]>>

\* The first component, in document order, whose sub-file holds the object
\* it refers to; 0 if there is none
FirstResolved(comps) ==
    LET found == {k \in 1..Len(comps) : Referenced(comps[k]) # <<>>}
    IN  IF found = {} THEN 0 ELSE CHOOSE k \in found : \A j \in found : k <= j

\* What parse_3mf reported for the container, as a sequence of 0 or 1:
\* the mesh object of the package is reported first
Resolved == SubSeq(scan.parsed.objects, 2, Len(scan.parsed.objects))

\* C23: a container without inline mesh has the vertex count and the
\* provenance of the mesh object that its first component with a
\* resolvable reference names, whatever the later components refer to.
ContainerTakesFirstComponent ==
    (scan.done /\ FirstResolved(scan.comps) # 0) =>
        LET first == Referenced(scan.comps[FirstResolved(scan.comps)])[1]
        IN  first.mesh =>
                /\ Len(Resolved) = 1
                /\ Resolved[1].vertices = Len(first.verts)
                /\ Resolved[1].object_id = scan.comps[FirstResolved(scan.comps)].objectid

\* The part of C23 the code keeps: with one component, the object it names
\* gives the counts, and a container it names gives none
ContainerTakesOnlyComponent ==
    (scan.done /\ Len(scan.comps) = 1) =>
        LET hit == Referenced(scan.comps[1])
        IN  IF hit # <<>> /\ hit[1].mesh
            THEN /\ Len(Resolved) = 1
                 /\ Resolved[1].vertices = Len(hit[1].verts)
            ELSE Resolved = <<>>

\* The name the precedence gives a container resolved through a component:
\* its own name, else the name of the referenced object, else the stem of
\* the sub-file, else Object_<id>
NameByPrecedence(own, id, component, referenced) ==
    IF own # "" THEN own
    ELSE IF referenced.name # "" THEN referenced.name
    ELSE IF PathStem(component.path) # "" THEN PathStem(component.path)
    ELSE "Object_" \o id

\* C24: the name reported for a container that is resolved through its
\* only component follows the precedence own name, name of the referenced
\* object, stem of the sub-file, Object_<id>.
NameFollowsPrecedence ==
    (scan.done /\ Len(scan.comps) = 1 /\ Len(Resolved) = 1) =>
        Resolved[1].name =
            NameByPrecedence(scan.name, CONTAINER_ID, scan.comps[1],
                             Referenced(scan.comps[1])[1])

\* The part of C24 the code keeps: a container without a name takes the
\* name of the referenced object when that object has one
NamelessTakesReferencedName ==
    (scan.done /\ Len(scan.comps) = 1 /\ Len(Resolved) = 1 /\ scan.name = ""
       /\ Referenced(scan.comps[1])[1].name # "") =>
        Resolved[1].name = Referenced(scan.comps[1])[1].name

-----------------------------------------------------------------------------
(* Plate bounds of an item whose object is made of components              *)

\* Components that refer to a sub-file, and components that refer to an
\* object of the geometry part itself
BoundsComponentChoices ==
    {Component("/" \o A_MODEL, "1", At(1, 2, 3)),
     Component("/" \o B_MODEL, "2", <<>>),
     Component("/3D/Objects/none.model", "1", At(1, 2, 3)),
     Component("", "1", At(5, 0, 0)),
     Component("", "2", <<>>)}

BoundsComponentLists == UNION {[1..n -> BoundsComponentChoices] : n \in 0..MaxComps}

BoundsObjects(comps) ==
    <<MeshObject("1", "Cube", CubeVerts), MeshObject("2", "Slab", SlabVerts),
      ContainerObject(CONTAINER_ID, "Pair", comps)>>

\* The container placed at (10, 20, 30), an item of an object that is not
\* there, and the cube where it is
BoundsItems ==
    <<Item(CONTAINER_ID, At(10, 20, 30), ""), Item("9", At(1, 1, 1), ""), Item("1", <<>>, "")>>

BoundsPackage(comps) ==
    File(<<ContentTypes, Rels,
           Part(MODEL_PATH, ModelXml(Model(BoundsObjects(comps), BoundsItems))),
           Part(A_MODEL, ModelXml(ModelA)),
           Part(B_MODEL, ModelXml(ModelB))>>)

NoBoundsScan == [done |-> FALSE, comps |-> <<>>, plate |-> 0, bounds |-> NoXmlBounds]

\* _calculate_xml_bounds for one plate (1 .. 3) or for the whole package (0)
ComponentBoundsOf ==
    /\ ~scan.done
    /\ \E comps \in BoundsComponentLists, plate_id \in 0..Len(BoundsItems) :
         scan' = [done |-> TRUE, comps |-> comps, plate |-> plate_id,
                  bounds |-> calculate_xml_bounds(BoundsPackage(comps), plate_id)]
    /\ UNCHANGED <<dir, ino, cache, call, grid, gx, meta>>

InitBounds ==
    /\ scan = NoBoundsScan
    /\ dir = NoFiles /\ ino = NoFiles /\ cache = ColdCache
    /\ call = [c \in {} |-> Idle]
    /\ grid = 0 /\ gx = 0 /\ meta = 0

NextBounds == ComponentBoundsOf

SpecBounds == InitBounds /\ [][NextBounds]_vars

\* The object of this id among these, as a sequence of 0 or 1
ObjectOfId(objects, id) ==
    LET hits == {i \in 1..Len(objects) : objects[i].id = id}
    IN  IF hits = {} THEN <<>> ELSE <<objects[CHOOSE i \in hits : TRUE]>>

\* The mesh a component carries, as a sequence of 0 or 1 vertex lists: the
\* one of the object it names in its sub-file or, without a path, in the
\* geometry part
CarriedMesh(comps, component) ==
    LET hit == IF component.path = ""
               THEN ObjectOfId(BoundsObjects(comps), component.objectid)
               ELSE Referenced(component)
    IN  IF hit # <<>> /\ hit[1].mesh THEN <<hit[1].verts>> ELSE <<>>

\* The translation a 12-element transform names on an axis, zero without one
Offset(transform, axis) == IF Len(transform) >= 12 THEN transform[9 + axis] ELSE 0

Lowest(values) == CHOOSE m \in values : \A v \in values : m <= v
Highest(values) == CHOOSE m \in values : \A v \in values : m >= v

\* The boxes an item brings, as a set of [min, max] on an axis: one per
\* component with a mesh for the container, one for a mesh object, none
\* for an object that is not there
BoxesOf(comps, item, axis) ==
    LET o == ObjectOfId(BoundsObjects(comps), item.objectid)
    IN  IF o = <<>> THEN {}
        ELSE IF o[1].mesh
        THEN {[min |-> Least(o[1].verts, axis) + Offset(item.transform, axis),
               max |-> Greatest(o[1].verts, axis) + Offset(item.transform, axis)]}
        ELSE {[min |-> Least(CarriedMesh(comps, comps[k])[1], axis)
                         + Offset(comps[k].transform, axis) + Offset(item.transform, axis),
               max |-> Greatest(CarriedMesh(comps, comps[k])[1], axis)
                         + Offset(comps[k].transform, axis) + Offset(item.transform, axis)] :
                 k \in {j \in 1..Len(comps) : CarriedMesh(comps, comps[j]) # <<>>}}

ScopeOf(plate_id) == IF plate_id = 0 THEN 1..Len(BoundsItems) ELSE {plate_id}

BoxesIn(comps, plate_id, axis) ==
    UNION {BoxesOf(comps, BoundsItems[i], axis) : i \in ScopeOf(plate_id)}

UnionOfBoxes(comps, plate_id, bounds) ==
    /\ bounds.ok
    /\ bounds.found <=> BoxesIn(comps, plate_id, 1) # {}
    /\ bounds.found =>
          \A axis \in 1..3 :
             /\ bounds.min[axis] = Lowest({b.min : b \in BoxesIn(comps, plate_id, axis)})
             /\ bounds.max[axis] = Highest({b.max : b \in BoxesIn(comps, plate_id, axis)})

\* C25: the bounds of a plate are the union of the boxes of its item, for
\* a container one box per component that carries a mesh, in a sub-file or
\* in the geometry part, moved by the component's translation and then by
\* the item's; the bounds of the whole package are the union over the
\* items whose object is there, and an item without object does not make
\* the call fail.
BoundsAreUnionOfComponents ==
    scan.done => UnionOfBoxes(scan.comps, scan.plate, scan.bounds)

\* The part of C25 the code keeps: components that refer to sub-files
BoundsAreUnionOfSubFileComponents ==
    (scan.done /\ \A k \in 1..Len(scan.comps) : scan.comps[k].path # "") =>
        UnionOfBoxes(scan.comps, scan.plate, scan.bounds)

-----------------------------------------------------------------------------
(* gcode_layer_extractor.py: LayerExtractor                                *)
(* A command is what COORD_PATTERN finds on a line: the word that starts   *)
(* it and, for each of X, Y, Z and E, the number given (a sequence of 0 or *)
(* 1 numbers, in micro-units).                                             *)

decimation_factor == 100

\* The 0.001 of the comparisons
Threshold == Unit \div 1000

Abs(v) == IF v < 0 THEN -v ELSE v

\* round(v, digits) of Python, q being one unit of the last digit kept
RoundEven(v, q) ==
    IF 2 * (Abs(v) % q) = q
    THEN IF (Abs(v) \div q) % 2 = 0 THEN v - (IF v < 0 THEN -(Abs(v) % q) ELSE Abs(v) % q)
         ELSE RoundTo(v, q)
    ELSE RoundTo(v, q)

Cmd(g, X, Y, Z, E) == [g |-> g, X |-> X, Y |-> Y, Z |-> Z, E |-> E]

NoLayers == [k \in {} |-> 0]

reset_state ==
    [x |-> 0, y |-> 0, z |-> 0, e |-> 0,
     absolute_positioning |-> TRUE, absolute_extrusion |-> FALSE,
     current_layer_num |-> 0, current_z |-> 0, layers |-> NoLayers, move_counter |-> 0]

\* _handle_position_reset
handle_position_reset(st, coords) ==
    [st EXCEPT !.x = IF coords.X # <<>> THEN coords.X[1] ELSE @,
               !.y = IF coords.Y # <<>> THEN coords.Y[1] ELSE @,
               !.z = IF coords.Z # <<>> THEN coords.Z[1] ELSE @,
               !.e = IF coords.E # <<>> THEN coords.E[1] ELSE @]

\* self.x = float(...) or self.x += float(...)
Coord(current, absolute, given) ==
    IF given = <<>> THEN current
    ELSE IF absolute THEN given[1] ELSE current + given[1]

Positioned(st, coords) ==
    [st EXCEPT !.x = Coord(@, st.absolute_positioning, coords.X),
               !.y = Coord(@, st.absolute_positioning, coords.Y),
               !.z = Coord(@, st.absolute_positioning, coords.Z),
               !.e = Coord(@, st.absolute_extrusion, coords.E)]

LayersBelow(layers, z) == Cardinality({k \in DOMAIN layers : layers[k].z_height < z})

\* len([z for z in self.layers.values() if z["z_height"] <= self.z])
LayersUpTo(layers, z) == Cardinality({k \in DOMAIN layers : layers[k].z_height <= z})

LayeredByIncrement(st, coords) ==
    IF coords.Z # <<>> /\ Abs(st.z - st.current_z) > Threshold
    THEN [st EXCEPT !.current_z = st.z, !.current_layer_num = @ + 1]
    ELSE st

\* if 'Z' in coords: ... if abs(self.z - self.current_z) > 0.001: ...
Layered(st, coords) ==
    IF coords.Z # <<>> /\ Abs(st.z - st.current_z) > Threshold
    THEN [st EXCEPT !.current_z = st.z, !.current_layer_num = LayersUpTo(st.layers, st.z)]
    ELSE st

\* if self.current_layer_num not in self.layers: ...
WithLayer(st) ==
    IF st.current_layer_num \in DOMAIN st.layers THEN st
    ELSE [st EXCEPT !.layers =
            (st.current_layer_num :>
               [z_height |-> RoundEven(st.current_z, Unit \div 1000), moves |-> <<>>]) @@ @]

Counted(st) == [st EXCEPT !.move_counter = @ + 1]

should_keep(st) ==
    \/ st.move_counter % decimation_factor = 0
    \/ Len(st.layers[st.current_layer_num].moves) = 0

Move(prev, st, is_extrusion) ==
    [type |-> IF is_extrusion THEN "extrude" ELSE "travel",
     x1 |-> RoundEven(prev.x, Unit \div 100), y1 |-> RoundEven(prev.y, Unit \div 100),
     x2 |-> RoundEven(st.x, Unit \div 100), y2 |-> RoundEven(st.y, Unit \div 100)]

KeptLoose(st, prev) ==
    IF should_keep(st)
    THEN [st EXCEPT !.layers[st.current_layer_num].moves =
            Append(@, Move(prev, st, st.e >= prev.e))]
    ELSE st

Kept(st, prev) ==
    IF should_keep(st)
    THEN [st EXCEPT !.layers[st.current_layer_num].moves =
            Append(@, Move(prev, st, st.e > prev.e))]
    ELSE st

\* Skip moves with no XY change
MovedFrom(prev, st) ==
    IF Abs(st.x - prev.x) < Threshold /\ Abs(st.y - prev.y) < Threshold THEN st
    ELSE Kept(Counted(WithLayer(st)), prev)

\* _handle_move
handle_move(st, coords) == MovedFrom(st, Layered(Positioned(st, coords), coords))

\* _process_command
process_command(st, cmd) ==
    CASE cmd.g = "G90" -> [st EXCEPT !.absolute_positioning = TRUE]
      [] cmd.g = "G91" -> [st EXCEPT !.absolute_positioning = FALSE]
      [] cmd.g = "M82" -> [st EXCEPT !.absolute_extrusion = TRUE]
      [] cmd.g = "M83" -> [st EXCEPT !.absolute_extrusion = FALSE]
      [] cmd.g = "G92" -> handle_position_reset(st, cmd)
      [] cmd.g \in {"G0", "G1"} -> handle_move(st, cmd)
      [] OTHER -> st

-----------------------------------------------------------------------------
(* The pass of extract_layers over a toolpath of travel moves and lifts    *)

MaxMoves == 101
MaxLifts == 2
Xs == {0, 10 * Unit}
Heights == {Unit \div 5, 2 * (Unit \div 5)}

\* The extractor, and beside it what the claims speak of and the code does
\* not keep: per layer the number of moves that qualified (seen), and the
\* number of lifts read so far
Fed(g, st) ==
    [st |-> st,
     seen |-> IF st.move_counter = g.st.move_counter THEN g.seen
              ELSE (st.current_layer_num :>
                      (IF st.current_layer_num \in DOMAIN g.seen
                       THEN g.seen[st.current_layer_num] ELSE 0) + 1) @@ g.seen,
     lifts |-> g.lifts]

Feed(cmd) ==
    /\ gx' = Fed(gx, process_command(gx.st, cmd))
    /\ UNCHANGED <<dir, ino, cache, call, grid, scan, meta>>

\* G1 X<x>
GcodeTravel ==
    /\ gx.st.move_counter < MaxMoves
    /\ \E x \in Xs : Feed(Cmd("G1", <<x>>, <<>>, <<>>, <<>>))

\* G1 Z<z>
GcodeLift ==
    /\ gx.lifts < MaxLifts
    /\ \E z \in Heights :
         /\ gx' = [Fed(gx, process_command(gx.st, Cmd("G1", <<>>, <<>>, <<z>>, <<>>)))
                     EXCEPT !.lifts = @ + 1]
         /\ UNCHANGED <<dir, ino, cache, call, grid, scan, meta>>

InitGcode ==
    /\ gx = [st |-> reset_state, seen |-> NoLayers, lifts |-> 0]
    /\ dir = NoFiles /\ ino = NoFiles /\ cache = ColdCache
    /\ call = [c \in {} |-> Idle]
    /\ grid = 0 /\ scan = 0 /\ meta = 0

NextGcode == GcodeTravel \/ GcodeLift

SpecGcode == InitGcode /\ [][NextGcode]_vars

\* C10: a layer with n qualifying moves holds at most floor(n / K) + 1
\* retained moves, wherever the layer lies in the file.
RetainedWithinBound ==
    \A k \in DOMAIN gx.st.layers :
        Len(gx.st.layers[k].moves) <= gx.seen[k] \div decimation_factor + 1

\* The moves a layer holds, none for a layer that is not recorded
Retained(layers, k) == IF k \in DOMAIN layers THEN layers[k].moves ELSE <<>>

\* C27: a command that leaves one more retained move in a layer was read
\* with the tracked Z within 0.001 of the height recorded for that layer.
RetainedAtLayerHeight ==
    [][\A k \in DOMAIN gx'.st.layers :
          Len(Retained(gx'.st.layers, k)) > Len(Retained(gx.st.layers, k)) =>
              Abs(gx'.st.z - gx'.st.layers[k].z_height) <= Threshold]_vars

-----------------------------------------------------------------------------
(* extract_layers on whole files, for a window of layers                   *)

\* A line that is empty or a comment is skipped, any other is a command
\* (its inline comment removed)
COMMENT == Cmd(";", <<>>, <<>>, <<>>, <<>>)

ReadLine(st, line) == IF line = COMMENT THEN st ELSE process_command(st, line)

\* for line in f: ...
RECURSIVE Pass(_, _)
Pass(st, lines) ==
    IF lines = <<>> THEN st ELSE Pass(ReadLine(st, Head(lines)), Tail(lines))

\* max(self.layers.keys()) + 1 if self.layers else 0
TotalLayers(layers) ==
    IF DOMAIN layers = {} THEN 0
    ELSE (CHOOSE m \in DOMAIN layers : \A k \in DOMAIN layers : m >= k) + 1

Least2(a, b) == IF a < b THEN a ELSE b

\* range(start, stop - 1), then range(start, stop)
RangeShort(start, stop) == [i \in 1..(stop - start - 1) |-> start + i - 1]
Range(start, stop) == [i \in 1..(stop - start) |-> start + i - 1]

ResultLayer(layers, layer_num) ==
    [layer_num |-> layer_num, z_height |-> layers[layer_num].z_height,
     moves |-> layers[layer_num].moves]

ResultLayers(layers, nums) ==
    LET InLayers(n) == n \in DOMAIN layers
        kept == SelectSeq(nums, InLayers)
    IN  [i \in 1..Len(kept) |-> ResultLayer(layers, kept[i])]

NoResult ==
    [ok |-> FALSE, total_layers |-> 0, start_layer |-> 0, layer_count |-> 0, layers |-> <<>>]

Extracted(layers, start, result_layers) ==
    [ok |-> TRUE, total_layers |-> TotalLayers(layers), start_layer |-> start,
     layer_count |-> Len(result_layers), layers |-> result_layers]

WindowOf(layers, start, end) ==
    Extracted(layers, start,
              ResultLayers(layers, Range(start, Least2(end, TotalLayers(layers)))))

\* extract_layers(gcode_path, start, count); ok = FALSE where it raises
\* FileNotFoundError
extract_layers(file, start, count) ==
    IF ~file.exists THEN NoResult
    ELSE WindowOf(Pass(reset_state, file.lines).layers, start, start + count)

MaxLines == 4
Lines ==
    {Cmd("G1", <<x>>, <<>>, <<>>, <<>>) : x \in Xs}
    \cup {Cmd("G1", <<>>, <<>>, <<z>>, <<>>) : z \in Heights}
    \cup {COMMENT}
GcodeFiles ==
    {[exists |-> FALSE, lines |-> <<>>]}
    \cup {[exists |-> TRUE, lines |-> l] : l \in UNION {[1..n -> Lines] : n \in 0..MaxLines}}
Starts == -1..2
Counts == -1..3

\* A call of extract_layers on the file, with what it returned
ExtractLayers ==
    /\ ~gx.done
    /\ \E start \in Starts, count \in Counts :
         gx' = [gx EXCEPT !.done = TRUE, !.start = start, !.count = count,
                          !.result = extract_layers(gx.file, start, count)]
    /\ UNCHANGED <<dir, ino, cache, call, grid, scan, meta>>

InitLayers ==
    /\ \E file \in GcodeFiles :
         gx = [file |-> file, done |-> FALSE, start |-> 0, count |-> 0, result |-> NoResult]
    /\ dir = NoFiles /\ ino = NoFiles /\ cache = ColdCache
    /\ call = [c \in {} |-> Idle]
    /\ grid = 0 /\ scan = 0 /\ meta = 0

NextLayers == ExtractLayers

SpecLayers == InitLayers /\ [][NextLayers]_vars

\* The layers of the file, whatever window is asked for
LayersOfFile == Pass(reset_state, gx.file.lines).layers

Returned(layers, start, count) == WindowOf(layers, start, start + count).layers

WindowIn(layers, out, start, count, total) ==
    LET wanted == {k \in DOMAIN layers : start <= k /\ k < start + count}
    IN  /\ {out[i].layer_num : i \in 1..Len(out)} = wanted
        /\ \A i \in 1..Len(out) : \A j \in 1..Len(out) :
               i < j => out[i].layer_num < out[j].layer_num
        /\ \A i \in 1..Len(out) :
               /\ out[i].z_height = layers[out[i].layer_num].z_height
               /\ out[i].moves = layers[out[i].layer_num].moves
        /\ total = IF DOMAIN layers = {} THEN 0
                   ELSE (CHOOSE m \in DOMAIN layers : \A k \in DOMAIN layers : m >= k) + 1

WindowsJoin(layers) ==
    \A a \in 0..MaxLines : \A b \in 0..MaxLines :
        Returned(layers, 0, a) \o Returned(layers, a, b) = Returned(layers, 0, a + b)

\* C20: extract_layers(start, count) returns the layers of the file whose
\* index is in [start, start + count), each once, in ascending order and
\* with the height and the moves the file gives it; the total is the
\* greatest layer index + 1, and 0 for a file without a layer; the windows
\* (0, a) and (a, b) return between them what the window (0, a + b)
\* returns.
WindowOfLayers ==
    (gx.done /\ gx.result.ok) =>
        /\ WindowIn(LayersOfFile, gx.result.layers, gx.start, gx.count,
                    gx.result.total_layers)
        /\ WindowsJoin(LayersOfFile)

\* The second of the two layers of a file was asked for and returned alone
SecondLayerAlone ==
    /\ gx.done /\ gx.result.ok
    /\ gx.start = 1 /\ gx.count = 1
    /\ gx.result.total_layers = 2
    /\ Len(gx.result.layers) = 1
    /\ gx.result.layers[1].layer_num = 1
    /\ gx.result.layers[1].z_height = Unit \div 5
    /\ Len(gx.result.layers[1].moves) = 1

-----------------------------------------------------------------------------
(* The pass of extract_layers, command by command, over moves, lifts,      *)
(* mode switches and position resets                                       *)

MaxCmds == 5

ModeCmds == {Cmd(g, <<>>, <<>>, <<>>, <<>>) : g \in {"G90", "G91", "M82", "M83"}}

\* G92 E0, G92 Z0
ResetCmds == {Cmd("G92", <<>>, <<>>, <<>>, <<0>>), Cmd("G92", <<>>, <<>>, <<0>>, <<>>)}

\* G1 X10 E1, G1 X0, G1 X0 Y10 E-1, G1 E1
MoveCmds ==
    {Cmd("G1", <<10 * Unit>>, <<>>, <<>>, <<Unit>>),
     Cmd("G1", <<0>>, <<>>, <<>>, <<>>),
     Cmd("G1", <<0>>, <<10 * Unit>>, <<>>, <<-Unit>>),
     Cmd("G1", <<>>, <<>>, <<>>, <<Unit>>)}

\* G1 Z0.2, G1 Z0.2004, G1 Z0.4
LiftCmds ==
    {Cmd("G1", <<>>, <<>>, <<z>>, <<>>) :
        z \in {Unit \div 5, Unit \div 5 + 4 * (Unit \div 10000), 2 * (Unit \div 5)}}

\* The extractor after a command, with the command and the state before it
Read(g, cmd) ==
    [st |-> process_command(g.st, cmd), before |-> g.st, cmd |-> cmd, n |-> g.n + 1]

PassStep(cmd) ==
    /\ gx.n < MaxCmds
    /\ gx' = Read(gx, cmd)
    /\ UNCHANGED <<dir, ino, cache, call, grid, scan, meta>>

PassMode == \E cmd \in ModeCmds : PassStep(cmd)
PassReset == \E cmd \in ResetCmds : PassStep(cmd)
PassMove == \E cmd \in MoveCmds : PassStep(cmd)
PassLift == \E cmd \in LiftCmds : PassStep(cmd)

InitPass ==
    /\ gx = [st |-> reset_state, before |-> reset_state, cmd |-> COMMENT, n |-> 0]
    /\ dir = NoFiles /\ ino = NoFiles /\ cache = ColdCache
    /\ call = [c \in {} |-> Idle]
    /\ grid = 0 /\ scan = 0 /\ meta = 0

NextPass == PassMode \/ PassReset \/ PassMove \/ PassLift

SpecPass == InitPass /\ [][NextPass]_vars

IsMotion(cmd) == cmd.g \in {"G0", "G1"}

\* The value a motion command gives a coordinate
Target(was, absolute, given) ==
    IF given = <<>> THEN was ELSE IF absolute THEN given[1] ELSE was + given[1]

NewZ == Target(gx.before.z, gx.before.absolute_positioning, gx.cmd.Z)

RecordedUpTo(layers, z) == Cardinality({k \in DOMAIN layers : layers[k].z_height <= z})

\* C21: a motion command that sets Z to a value more than 0.001 away from
\* the Z of the current layer makes the current layer index the number of
\* recorded layers whose stored height is <= the new Z, and the new Z the
\* Z of the current layer; a Z at most 0.001 away changes neither.
LayerIndexCountsLowerLayers ==
    (IsMotion(gx.cmd) /\ gx.cmd.Z # <<>>) =>
        IF Abs(NewZ - gx.before.current_z) > Threshold
        THEN /\ gx.st.current_layer_num = RecordedUpTo(gx.before.layers, NewZ)
             /\ gx.st.current_z = NewZ
        ELSE /\ gx.st.current_layer_num = gx.before.current_layer_num
             /\ gx.st.current_z = gx.before.current_z

\* A lift to 0.4 after a layer was recorded at 0.4 and left for 0.2: the
\* height is a duplicate, and the current layer becomes layer 1
DuplicateHeightCounted ==
    /\ gx.cmd = Cmd("G1", <<>>, <<>>, <<2 * (Unit \div 5)>>, <<>>)
    /\ DOMAIN gx.before.layers = {0}
    /\ gx.before.layers[0].z_height = 2 * (Unit \div 5)
    /\ gx.before.current_z = Unit \div 5
    /\ gx.st.current_layer_num = 1

NewX == Target(gx.before.x, gx.before.absolute_positioning, gx.cmd.X)
NewY == Target(gx.before.y, gx.before.absolute_positioning, gx.cmd.Y)
NewE == Target(gx.before.e, gx.before.absolute_extrusion, gx.cmd.E)

NoDisplacement ==
    Abs(NewX - gx.before.x) < Threshold /\ Abs(NewY - gx.before.y) < Threshold

MovesOf(layers, k) == IF k \in DOMAIN layers THEN layers[k].moves ELSE <<>>

\* The command left one more move in the current layer
Recorded ==
    Len(MovesOf(gx.st.layers, gx.st.current_layer_num))
        = Len(MovesOf(gx.before.layers, gx.st.current_layer_num)) + 1

LastMove == gx.st.layers[gx.st.current_layer_num].moves[
                Len(gx.st.layers[gx.st.current_layer_num].moves)]

\* C22: a motion command always moves the tracked position to where it
\* says; without a displacement of 0.001 or more in X or Y it records
\* nothing, creates no layer and leaves the move counter; with one it
\* advances the counter, and the move it records, if any, is 'extrude'
\* exactly when the tracked extrusion position went up, 'travel' otherwise.
MoveTypeFollowsExtrusion ==
    IsMotion(gx.cmd) =>
        /\ gx.st.x = NewX /\ gx.st.y = NewY /\ gx.st.z = NewZ /\ gx.st.e = NewE
        /\ IF NoDisplacement
           THEN /\ gx.st.layers = gx.before.layers
                /\ gx.st.move_counter = gx.before.move_counter
           ELSE /\ gx.st.move_counter = gx.before.move_counter + 1
                /\ Recorded =>
                      LastMove.type = IF NewE > gx.before.e THEN "extrude" ELSE "travel"

\* G1 X10 E1 read in absolute extrusion with the extruder already at 1:
\* a move with an E word that is a travel
TravelWithEWord ==
    /\ gx.cmd = Cmd("G1", <<10 * Unit>>, <<>>, <<>>, <<Unit>>)
    /\ gx.before.absolute_extrusion /\ gx.before.e = Unit
    /\ Recorded
    /\ LastMove.type = "travel"

\* G1 E1: the extruder advanced, nothing was recorded
ExtrusionInPlaceDropped ==
    /\ gx.cmd = Cmd("G1", <<>>, <<>>, <<>>, <<Unit>>)
    /\ gx.st.e = gx.before.e + Unit
    /\ gx.st.layers = gx.before.layers

\* C26: the recorded layers are numbered 0 .. n-1 without a gap, each
\* holds at least one retained move, their stored heights do not decrease
\* with the index, and the total that extract_layers reports is n.
LayersDenseAndOrdered ==
    LET layers == gx.st.layers
        n == Cardinality(DOMAIN layers)
    IN  /\ DOMAIN layers = 0..(n - 1)
        /\ \A k \in DOMAIN layers : Len(layers[k].moves) >= 1
        /\ \A i \in DOMAIN layers : \A j \in DOMAIN layers :
               i < j => layers[i].z_height <= layers[j].z_height
        /\ TotalLayers(layers) = n

\* Layers recorded at 0 and 0.4, then a move made after the return to 0.2:
\* no layer was added
TwoLayersAfterReturn ==
    /\ DOMAIN gx.st.layers = {0, 1}
    /\ gx.st.layers[0].z_height = 0
    /\ gx.st.layers[1].z_height = 2 * (Unit \div 5)
    /\ gx.st.current_z = Unit \div 5
    /\ gx.st.move_counter = 3

-----------------------------------------------------------------------------
(* gcode_parser.py: parse_time_to_seconds                                  *)

\* re.search(r'(\d+)<unit>', text): the matches (i, j) where text[i..j] are
\* digits and text[j+1] is the unit letter.  \d+ is greedy and the unit is no
\* digit, so each start has at most one end; search takes the leftmost start.
TokenMatches(text, unit) ==
    {ij \in (1..Len(text)) \X (1..Len(text)) :
        /\ ij[1] <= ij[2]
        /\ ij[2] < Len(text)
        /\ AllDigits(SubSeq(text, ij[1], ij[2]))
        /\ SubSeq(text, ij[2] + 1, ij[2] + 1) = unit}

Leftmost(matches) == CHOOSE ij \in matches : \A o \in matches : ij[1] <= o[1]

\* int(match.group(1)) of the match
GroupValue(text, ij) == NatVal(SubSeq(text, ij[1], ij[2]))

\* if match: total_seconds += int(match.group(1)) * weight
TokenSeconds(matches, text, weight) ==
    IF matches = {} THEN 0 ELSE GroupValue(text, Leftmost(matches)) * weight

parse_time_without_hours(time_str) ==
    TokenSeconds(TokenMatches(time_str, "m"), time_str, 60)
    + TokenSeconds(TokenMatches(time_str, "s"), time_str, 1)

parse_time_to_seconds(time_str) ==
    TokenSeconds(TokenMatches(time_str, "h"), time_str, 3600)
    + TokenSeconds(TokenMatches(time_str, "m"), time_str, 60)
    + TokenSeconds(TokenMatches(time_str, "s"), time_str, 1)

\* re.search(r'=\s*(.+)$', line) on a stripped line: the text after the
\* first '=' and the blanks that follow it; no match when nothing is left
FirstEquals(line) ==
    LET hits == {i \in 1..Len(line) : SubSeq(line, i, i) = "="}
    IN  IF hits = {} THEN 0 ELSE CHOOSE i \in hits : \A j \in hits : i <= j

RECURSIVE lstrip(_)
lstrip(s) == IF Len(s) > 0 /\ SubSeq(s, 1, 1) = " " THEN lstrip(SubSeq(s, 2, Len(s))) ELSE s

AfterEquals(line, k) == IF k = 0 THEN "" ELSE lstrip(SubSeq(line, k + 1, Len(line)))

Contains(s, sub) == \E i \in 1..(Len(s) - Len(sub) + 1) : SubSeq(s, i, i + Len(sub) - 1) = sub

\* The footer loop of parse_orca_metadata on one line (lower-case lines only)
estimated_time_of_line(line) ==
    IF Contains(strip(line), "estimated printing time") /\ Contains(strip(line), "normal mode")
    THEN IF AfterEquals(strip(line), FirstEquals(strip(line))) = "" THEN 0
         ELSE parse_time_to_seconds(AfterEquals(strip(line), FirstEquals(strip(line))))
    ELSE 0

-----------------------------------------------------------------------------
(* Time texts as the slicer writes them, parsed once                       *)

MaxHours == 2
Hours == (0..MaxHours) \cup {10}
Minutes == {0, 23, 59}
Seconds == {0, 5, 45}
Gaps == {" ", ""}
TIME_COMMENT == "; estimated printing time (normal mode) = "

Optional(values) == {<<>>} \cup {<<v>> : v \in values}

\* '<n><unit>' when the token is there
Token(n, unit) == IF n = <<>> THEN "" ELSE ToString(n[1]) \o unit

Joined(a, b, gap) == IF a = "" \/ b = "" THEN a \o b ELSE a \o gap \o b

TimeText(h, m, s, gap) == Joined(Joined(Token(h, "h"), Token(m, "m"), gap), Token(s, "s"), gap)

Given(n) == IF n = <<>> THEN 0 ELSE n[1]

InitTime ==
    /\ \E h \in Optional(Hours), m \in Optional(Minutes), s \in Optional(Seconds), gap \in Gaps :
         meta = [text |-> TimeText(h, m, s, gap), h |-> h, m |-> m, s |-> s,
                 done |-> "", seconds |-> 0]
    /\ dir = NoFiles /\ ino = NoFiles /\ cache = ColdCache
    /\ call = [c \in {} |-> Idle]
    /\ grid = 0 /\ scan = 0 /\ gx = 0

ParseTime ==
    /\ meta.done = ""
    /\ meta' = [meta EXCEPT !.done = "text", !.seconds = parse_time_to_seconds(meta.text)]
    /\ UNCHANGED <<dir, ino, cache, call, grid, scan, gx>>

ParseLine ==
    /\ meta.done = ""
    /\ meta' = [meta EXCEPT !.done = "line",
                            !.seconds = estimated_time_of_line(TIME_COMMENT \o meta.text)]
    /\ UNCHANGED <<dir, ino, cache, call, grid, scan, gx>>

NextTime == ParseTime \/ ParseLine

SpecTime == InitTime /\ [][NextTime]_vars

\* C11: a time text made of the optional tokens <h>h, <m>m, <s>s parses to
\* 3600 h + 60 m + s, an absent token counting 0, whether the text is handed
\* to parse_time_to_seconds or read from the comment line of the file.
TimeIsSumOfTokens ==
    meta.done # "" => meta.seconds = 3600 * Given(meta.h) + 60 * Given(meta.m) + Given(meta.s)

OneHour23m45s ==
    /\ meta.done = "line" /\ meta.text = "1h 23m 45s" /\ meta.seconds = 5025

-----------------------------------------------------------------------------
(* The path an embed takes (checked under SpecEmbed)                       *)

\* The two signals of genuine multi-tool requirements, read from the source
Signal(cr) ==
    \/ has_multi_extruder_assignments(File(cr.src0.parts))
    \/ has_layer_tool_changes(File(cr.src0.parts))

\* The keys a profile, the filament settings or the overrides define
Redefined(cr) ==
    DOMAIN cr.profiles.printer \cup DOMAIN cr.profiles.process
      \cup DOMAIN cr.profiles.filament \cup DOMAIN cr.args.F \cup DOMAIN cr.args.O

KeepsSource(c, keys) ==
    \A k \in keys : k \in DOMAIN Emitted(c) /\ Emitted(c)[k] = SourceSettings(call[c])[k]

Overlaid(cr) ==
    (PrinterGcodeKeys \cap DOMAIN cr.profiles.printer) \cup DOMAIN cr.profiles.process
      \cup DOMAIN cr.profiles.filament \cup DOMAIN cr.args.F \cup DOMAIN cr.args.O

\* The keys it removes, forces, clamps or pads
Normalised ==
    {"time_lapse_gcode", "machine_pause_gcode", "layer_gcode",
     "raft_first_layer_expansion", "tree_support_wall_count", "prime_volume",
     "prime_tower_brim_width", "prime_tower_brim_chamfer",
     "prime_tower_brim_chamfer_max_width", "wipe_tower_x", "wipe_tower_y",
     "solid_infill_filament", "sparse_infill_filament", "wall_filament",
     "bed_temperature_initial_layer_single", "single_extruder_multi_material"}
      \cup PerToolKeys

-----------------------------------------------------------------------------
(* The order of the overlay (checked under SpecEmbed)                      *)

\* Two setting values are the same: both scalars or both arrays, and equal
SameValue(a, b) == a.l = b.l /\ a.v = b.v

\* C13 as claimed: after an embed on either path, every key of the
\* overrides is emitted with exactly the override value.
OverridesAlwaysWin ==
    \A c \in DOMAIN call :
        FirstEmbedDone(c) =>
            \A k \in DOMAIN call[c].args.O :
                k \in DOMAIN Emitted(c) /\ SameValue(Emitted(c)[k], call[c].args.O[k])

\* The index fields the assignment-preserving path clamps, with their minimum
IndexMinimum ==
    [k \in {"raft_first_layer_expansion", "tree_support_wall_count", "prime_volume",
            "prime_tower_brim_width", "prime_tower_brim_chamfer",
            "prime_tower_brim_chamfer_max_width"} |-> 0]
    @@ [k \in {"solid_infill_filament", "sparse_infill_filament", "wall_filament"} |-> 1]

\* The value the overlay gives a key: overrides over filament settings over
\* the material, the process and the device profile
Overlay(cr, printer) == <<cr.args.O, cr.args.F, cr.profiles.filament, cr.profiles.process, printer>>

Winner(layers, k) ==
    layers[CHOOSE i \in 1..Len(layers) :
             k \in DOMAIN layers[i] /\ \A j \in 1..(i - 1) : k \notin DOMAIN layers[j]][k]

Defined(layers) == UNION {DOMAIN layers[i] : i \in 1..Len(layers)}

WholeAtLeast(value, minimum) ==
    ~value.l /\ ParseInt(value.v[1]).ok /\ ParseInt(value.v[1]).n >= minimum

\* C13, amended: overrides win the overlay, and among the profiles the later
\* one wins.  On the merge path the emitted value of every key the overlay
\* defines is the overlay's winner.  On the assignment-preserving path this
\* holds for the keys that are not normalised afterwards (of the device
\* profile only the six G-code keys take part); a clamped index field is
\* emitted as a whole number not below its minimum, and unchanged when the
\* winner is one already.
OverridesWinTheOverlay ==
    \A c \in DOMAIN call :
        FirstEmbedDone(c) =>
            IF call[c].plan.preserve
            THEN LET layers == Overlay(call[c],
                                 [k \in PrinterGcodeKeys \cap DOMAIN call[c].profiles.printer |->
                                    call[c].profiles.printer[k]])
                 IN  \A k \in Defined(layers) :
                        /\ k \notin Normalised =>
                             k \in DOMAIN Emitted(c) /\ SameValue(Emitted(c)[k], Winner(layers, k))
                        /\ k \in DOMAIN IndexMinimum =>
                             /\ WholeAtLeast(Emitted(c)[k], IndexMinimum[k])
                             /\ WholeAtLeast(Winner(layers, k), IndexMinimum[k]) =>
                                  SameValue(Emitted(c)[k], Winner(layers, k))
            ELSE LET layers == Overlay(call[c], call[c].profiles.printer)
                 IN  \A k \in Defined(layers) :
                        k \in DOMAIN Emitted(c) /\ SameValue(Emitted(c)[k], Winner(layers, k))

\* On the assignment-preserving path an embed emitted the overridden layer height and not the
\* process profile's, and the material profile's name, not the device's
OverrideBeatProfiles ==
        \E c \in DOMAIN call :
            /\ FirstEmbedDone(c) /\ call[c].plan.preserve
            /\ call[c].profiles.process["layer_height"] = Scalar("0.2")
            /\ call[c].args.O = [layer_height |-> Scalar("0.12")]
            /\ Emitted(c)["layer_height"] = Scalar("0.12")
            /\ Emitted(c)["name"] = Scalar("PLA @Snapmaker U1")

-----------------------------------------------------------------------------
(* Duplication (checked under Spec)                                        *)

CopiesDone(c) == Succeeded(c) /\ call[c].op = "copies" /\ call[c].args.copies >= 2

ItemsOf(held) == ReadPart(held.parts, MODEL_PATH).model.items

Printable(items) == {i \in 1..Len(items) : items[i].printable # "0"}

\* The one printable item of the source
TheItem(items) == items[CHOOSE i \in Printable(items) : TRUE]

\* The grid positions of a duplication: the layout of the footprint of the
\* source's object, with the spacing asked for
GridPositions(cr) ==
    calculate_grid_layout(get_object_dimensions(File(cr.src0.parts)).w,
                          get_object_dimensions(File(cr.src0.parts)).d,
                          cr.args.copies, cr.args.spacing)

ZOf(item) == IF Len(item.transform) >= 12 THEN item.transform[12] ELSE 0

\* C14: the duplication of a source with exactly one printable build item
\* into N >= 2 copies leaves a build list of exactly N items, each of the
\* source item's object, printable, with the identity as linear part and the
\* translation (x_i, y_i, z0) written with four decimals: the i-th grid
\* position and the Z translation of the source item (0 without transform).
CopiesBuildList ==
    \A c \in DOMAIN call :
        (CopiesDone(c) /\ Cardinality(Printable(ItemsOf(call[c].src0))) = 1) =>
            /\ Len(ItemsOf(Output(c))) = call[c].args.copies
            /\ \A i \in 1..Len(ItemsOf(Output(c))) :
                 ItemsOf(Output(c))[i] =
                   [objectid |-> TheItem(ItemsOf(call[c].src0)).objectid,
                    printable |-> "1",
                    transform |->
                      <<Unit, 0, 0, 0, Unit, 0, 0, 0, Unit,
                        RoundTo(GridPositions(call[c])[i][1], 100),
                        RoundTo(GridPositions(call[c])[i][2], 100),
                        RoundTo(ZOf(TheItem(ItemsOf(call[c].src0))), 100)>>]

\* Three copies were made of a cube placed at Z = 30, and two of an item
\* without transform that is the second of its build list
ThreeCopiesAtZ30 ==
    \E c \in DOMAIN call :
        /\ CopiesDone(c) /\ call[c].args.copies = 3
        /\ Cardinality(Printable(ItemsOf(call[c].src0))) = 1
        /\ ZOf(TheItem(ItemsOf(call[c].src0))) = 30 * Unit
        /\ Len(ItemsOf(Output(c))) = 3
        /\ ItemsOf(Output(c))[3].transform[12] = 30 * Unit

\* The vendor settings of a package, and its model-instance entries as
\* (plate, position) pairs
SettingsOfCopies(held) == ReadPart(held.parts, MODEL_SETTINGS_PATH).ms

Instances(ms) ==
    {pi \in (1..Len(ms.plates)) \X (1..MaxCopies + 1) : pi[2] <= Len(ms.plates[pi[1]].instances)}

InstanceAt(ms, pi) == ms.plates[pi[1]].instances[pi[2]]

\* C15: after a duplication into N copies of a source with vendor settings
\* the destination's settings hold exactly N model-instance entries and N
\* assemble-item entries, with the instance ids 0..N-1, all of them of the
\* duplicated object: nothing of the source's instances is left.
CopiesMetadataMatchesBuild ==
    \A c \in DOMAIN call :
        (CopiesDone(c) /\ HasPart(call[c].src0.parts, MODEL_SETTINGS_PATH)) =>
            LET ms == SettingsOfCopies(Output(c))
                N == call[c].args.copies
            IN  /\ Cardinality(Instances(ms)) = N
                /\ Len(ms.asm) = N
                /\ {InstanceAt(ms, pi).instance_id : pi \in Instances(ms)}
                     = {ToString(k) : k \in 0..(N - 1)}
                /\ {ms.asm[k].instance_id : k \in 1..Len(ms.asm)}
                     = {ToString(k) : k \in 0..(N - 1)}
                /\ \A pi \in Instances(ms) :
                     InstanceAt(ms, pi).object_id = ItemsOf(Output(c))[1].objectid

-----------------------------------------------------------------------------
(* Scaling (checked under Spec)                                            *)

ScaleDone(c, op) == Succeeded(c) /\ call[c].op = op /\ call[c].args.pct # 100

\* The geometry parts of a package, by name
ModelNames(held) ==
    {n \in {held.parts[i].name : i \in 1..Len(held.parts)} : EndsWith(n, ".model")}

ModelOf(held, n) == ReadPart(held.parts, n).model

\* The components of a model part as (object, position) pairs
ComponentsOf(model) ==
    {oc \in (1..Len(model.objects)) \X (1..MaxItems) :
        oc[2] <= Len(model.objects[oc[1]].comps)}

ComponentAt(model, oc) == model.objects[oc[1]].comps[oc[2]]

\* out is pct percent of v
IsTimes(out, v, pct) == out * 100 = v * pct

\* C16: after a uniform scale by f # 1 every build item has f times the
\* linear part it had (f times the identity if it had no transform), for
\* transforms of 12 and of 16 elements, and the translation it had; every
\* component transform has f times the translation it had.
UniformScaleOfItems ==
    \A c \in DOMAIN call :
        ScaleDone(c, "uniform_scale") =>
            \A n \in ModelNames(call[c].src0) :
                LET src == ModelOf(call[c].src0, n)
                    out == ModelOf(Output(c), n)
                    f == call[c].args.pct
                IN  /\ Len(out.items) = Len(src.items)
                    /\ \A i \in 1..Len(src.items) :
                         IF src.items[i].transform = <<>>
                         THEN out.items[i].transform =
                                <<f * (Unit \div 100), 0, 0, 0, f * (Unit \div 100), 0,
                                  0, 0, f * (Unit \div 100), 0, 0, 0>>
                         ELSE /\ Len(out.items[i].transform) = Len(src.items[i].transform)
                              /\ \A k \in 1..Len(src.items[i].transform) :
                                   IF k <= 9
                                   THEN IsTimes(out.items[i].transform[k],
                                                src.items[i].transform[k], f)
                                   ELSE out.items[i].transform[k] = src.items[i].transform[k]
                    /\ \A oc \in ComponentsOf(src) :
                         \A k \in 10..12 :
                            IsTimes(ComponentAt(out, oc).transform[k],
                                    ComponentAt(src, oc).transform[k], f)

\* v times pct percent (exact for the values of the packages)
Percent(v, pct) == (v * pct) \div 100

\* A 12-element transform with its translation scaled, and a vendor matrix
\* with its last column scaled
OffsetScaled(t, pct) == [k \in 1..Len(t) |-> IF k >= 10 THEN Percent(t[k], pct) ELSE t[k]]

ColumnScaled(m, pct) ==
    [k \in 1..Len(m) |-> IF k \in {4, 8, 12} THEN Percent(m[k], pct) ELSE m[k]]

-----------------------------------------------------------------------------
(* Parameters out of range                                                 *)

InvalidParameter(cr) ==
    \/ cr.op = "copies" /\ cr.args.copies < 1
    \/ IsScale(cr) /\ cr.args.pct <= 0

\* C18: a duplication with a copy count below 1 and a uniform or
\* offset-only scale with a scale of 0 or less fail, and the destination
\* holds what it held before the call.
InvalidParametersRejected ==
    \A c \in DOMAIN call :
        Ended(c) /\ InvalidParameter(call[c]) =>
            Failed(c) /\ Output(c) = call[c].before

\* The part of C18 the code keeps: the duplication with a copy count
\* below 1
InvalidCopiesRejected ==
    \A c \in DOMAIN call :
        Ended(c) /\ call[c].op = "copies" /\ call[c].args.copies < 1 =>
            Failed(c) /\ Output(c) = call[c].before

\* and the grid layout with a copy count below 1, under SpecGrid
InvalidGridRejected == grid.done /\ grid.count < 1 => grid.raised

-----------------------------------------------------------------------------
(* A plate extraction, and then another on what the first produced         *)

ExtractFirst(c) ==
    /\ At_(c, "idle")
    /\ \E target_plate_id \in 1..MaxPlate :
         Apply(c, extract_plate_to_3mf(Now, c,
                    Begin(Now, "extract", SOURCE, DEST,
                          [NoArgs EXCEPT !.plate = target_plate_id])))

\* The second call: the output of the first is its source; prev keeps
\* what the first call produced
ExtractAgain(c) ==
    /\ Succeeded(c) /\ call[c].round = 1
    /\ \E target_plate_id \in 1..MaxPlate :
         Apply(c, extract_plate_to_3mf(Now, c,
                    [Begin(Now, "extract", DEST, DEST_2,
                           [NoArgs EXCEPT !.plate = target_plate_id])
                       EXCEPT !.round = 2, !.prev = Held(Now, DEST)]))

InitExtract ==
    /\ \E items \in BuildLists :
          /\ dir = Files(<<PlatePackage(items)>>, <<>>).dir
          /\ ino = Files(<<PlatePackage(items)>>, <<>>).ino
    /\ cache = ColdCache
    /\ call = [c \in Callers |-> Idle]
    /\ grid = 0 /\ scan = 0 /\ gx = 0 /\ meta = 0

NextExtract ==
    \/ \E c \in Callers : ExtractFirst(c)
    \/ \E c \in Callers : ExtractAgain(c)

SpecExtract == InitExtract /\ [][NextExtract]_vars

\* Exactly item k of these is printable
OnlyPrintable(items, k) == \A i \in 1..Len(items) : items[i].printable # "0" <=> i = k

SameItems(out, in) ==
    /\ Len(out) = Len(in)
    /\ \A i \in 1..Len(in) :
          /\ out[i].objectid = in[i].objectid
          /\ out[i].transform = in[i].transform

ExtractedTwoTwice ==
    \E c \in DOMAIN call :
        /\ Succeeded(c) /\ call[c].round = 2 /\ call[c].args.plate = 2
        /\ OnlyPrintable(ItemsOf(call[c].prev), 2)
        /\ Output(c).parts = call[c].prev.parts

====
